---- MODULE Spec2Model ----
(***************************************************************************)
(* Verification model of the templify classification core:                 *)
(*   - the Section Assembler (build_sections_from_headings), in its two    *)
(*     copies core/config/utils/section_builder.py and                     *)
(*     core/schema/utils/section_builder.py;                               *)
(*   - the Router (route_match) with coerce_to_descriptor and the          *)
(*     detector entry points it calls, called once, twice with the same    *)
(*     arguments, and with a scorer that raises;                           *)
(*   - the scorers of the detectors (clue weights, synergy, clamps);       *)
(*   - the detectors run on a document of several lines (detect_headings, *)
(*     detect_lists, detect_paragraphs, detect_tables, the callout        *)
(*     detector, classify_lines, regex_fallback);                          *)
(*   - normalize_line;                                                     *)
(*   - domain scoring (score_line_domain) and the document prior           *)
(*     (ema_prior_update).                                                 *)
(***************************************************************************)
EXTENDS Integers, Sequences, FiniteSets, TLC

(***************************************************************************)
(* Bounds                                                                  *)
(***************************************************************************)
MaxHeadings == 4      \* longest heading sequence explored
MaxLevel == 3         \* deepest heading level explored
MaxLineLen == 2       \* longest line (in characters) given to the router
MaxSurplus == 1       \* largest difference in length of detections and descriptors

(***************************************************************************)
(* Python values                                                           *)
(***************************************************************************)
None == -1            \* a missing heading level (det.level is None)
Absent == -2          \* key "level" not present in anchor.features

Levels == {None} \cup (1..MaxLevel)

Last(s) == s[Len(s)]
Pop(s) == SubSeq(s, 1, Len(s) - 1)

\* `x or 1`
OrOne(x) == IF x = None \/ x = 0 THEN 1 ELSE x

\* features.get("level", default)
FeaturesGet(f, default) == IF f = Absent THEN default ELSE f

\* number of pairs zip(a, b) yields: it stops at the end of the shorter one
ZipLen(a, b) == IF Len(a) < Len(b) THEN Len(a) ELSE Len(b)

(***************************************************************************)
(* Section Assembler                                                       *)
(* A Section is identified by the 1-based position of its heading.  The    *)
(* builder state is the record                                             *)
(*   roots : root_sections, subs : Section.subsections of every section,   *)
(*   stack : the current path, feat : anchor.features["level"] of every    *)
(*   descriptor, pc : "run", "done" (returned) or "raised" (exception).    *)
(***************************************************************************)
VARIABLES builder,    \* which copy runs: "config" or "schema"
          dets,       \* det.level of each detection, in document order
          carried,    \* carried[k]: descriptor k already has features["level"]
          i,          \* number of (det, desc) pairs consumed by the loop
          roots, subs, stack, feat, pc,
          prevStack   \* the stack as it was before the last iteration

\* one call of route_match: its arguments, what it returned, what it invoked
VARIABLES rText,       \* text
          rStructure,  \* structure
          rTitles,     \* titles_config
          rSignal,     \* signal
          rWould,      \* score each detector's scorer gives the line
          rDesc,       \* the PatternDescriptor returned
          rCalls,      \* the MATCHERS entries invoked, in call order
          rPc          \* "idle" before the call, "returned" after it,
                       \* "raised" when an exception left it

rVars == <<rText, rStructure, rTitles, rSignal, rWould, rDesc, rCalls, rPc>>

\* a second call of route_match with the arguments of the first
VARIABLES rId,         \* id(self) of the descriptor the first call returned
          rHeld,       \* the caller still references the first descriptor
          r2Desc,      \* the PatternDescriptor the second call returned
          r2Id         \* id(self) of the second descriptor

repeatVars == <<rId, rHeld, r2Desc, r2Id>>

\* no second call made, no descriptor identity taken
RepeatIdle ==
    /\ rId = 0
    /\ rHeld = FALSE
    /\ r2Desc = <<>>
    /\ r2Id = 0

\* one run of a detector's scorer on a line
VARIABLES sDetector,   \* the detector whose scorer ran
          sSignals,    \* the clues and feature flags that fired on the line
          sLine,       \* the line (exact, regex, semantic)
          sTitle,      \* the candidate title (exact, semantic)
          sScore,      \* the score returned, in hundredths
          sDetected,   \* the detector reported the line
          sConf,       \* confidence of the descriptor coerced from the report
          sPc          \* "idle" or "scored"

scoreVars == <<sDetector, sSignals, sLine, sTitle, sScore, sDetected, sConf, sPc>>

ScoringIdle ==
    /\ sDetector = ""
    /\ sSignals = {}
    /\ sLine = <<>>
    /\ sTitle = <<>>
    /\ sScore = 0
    /\ sDetected = FALSE
    /\ sConf = 0
    /\ sPc = "idle"

\* normalize_line applied to a line and then to its own result
VARIABLES nIn,         \* the line given
          nOnce,       \* normalize_line(nIn)
          nTwice,      \* normalize_line(nOnce)
          nPc          \* "idle" or "done"

normVars == <<nIn, nOnce, nTwice, nPc>>

NormalizeIdle ==
    /\ nIn = <<>>
    /\ nOnce = <<>>
    /\ nTwice = <<>>
    /\ nPc = "idle"

\* one call of score_line_domain
VARIABLES dPacks,      \* packs, in dict order: what each pack matches on the line
          dEmpty,      \* the line is the empty string
          dBonus,      \* lf.has_allcaps_word and lf.titlecase_rate < 0.5
          dTemp,       \* temperature, in hundredths
          dRaw,        \* DomainScores.raw, in hundredths, by pack position
          dNorm,       \* DomainScores.scores, in 1/Scale, by pack position
          dTop,        \* DomainScores.top: pack positions, best first
          dPc          \* "idle" or "scored"

domVars == <<dPacks, dEmpty, dBonus, dTemp, dRaw, dNorm, dTop, dPc>>

DomainIdle ==
    /\ dPacks = <<>>
    /\ dEmpty = FALSE
    /\ dBonus = FALSE
    /\ dTemp = 100
    /\ dRaw = <<>>
    /\ dNorm = <<>>
    /\ dTop = <<>>
    /\ dPc = "idle"

\* two documents, each threading its own prior through ema_prior_update
VARIABLES eAlpha,      \* alpha, in tenths
          eHeap,       \* the dict objects that exist: eHeap[ref] is a dict's value
          eFirst,      \* the value of the prior both documents start from
          ePrior,      \* ePrior[d]: the prior document d holds (a ref, 0: None)
          eHist,       \* eHist[d]: the line scores document d has folded in
          eCall        \* the last call: its arguments and what it returned

emaVars == <<eAlpha, eHeap, eFirst, ePrior, eHist, eCall>>

EmaIdle ==
    /\ eAlpha = 2
    /\ eHeap = <<>>
    /\ eFirst = [none |-> TRUE, num |-> <<>>, den |-> 1]
    /\ ePrior = <<0, 0>>
    /\ eHist = << <<>>, <<>> >>
    /\ eCall = <<>>

\* one call of a detector on a document of several lines
VARIABLES tDetector,   \* which detector ran
          tLines,      \* the lines: text, the signals that fire, the clues that raise
          tThreshold,  \* the threshold argument, in hundredths
          tOut,        \* what the call gave: the detections, or an exception
          tPc          \* "idle" or "done"

detVars == <<tDetector, tLines, tThreshold, tOut, tPc>>

DetectIdle ==
    /\ tDetector = ""
    /\ tLines = <<>>
    /\ tThreshold = 0
    /\ tOut = [raised |-> FALSE, items |-> <<>>]
    /\ tPc = "idle"

\* every component but the Section Assembler and the first call is idle
AuxIdle ==
    /\ RepeatIdle /\ ScoringIdle /\ NormalizeIdle /\ DomainIdle /\ EmaIdle
    /\ DetectIdle

auxVars == <<repeatVars, scoreVars, normVars, domVars, emaVars, detVars>>
allVars == <<builder, dets, carried, i, roots, subs, stack, feat, pc, prevStack,
             rVars, auxVars>>

\* Section.add_subsection
AddSubsectionDup(s, parent, k) == [s EXCEPT ![parent] = Append(Append(@, k), k)]
AddSubsection(s, parent, k) == [s EXCEPT ![parent] = Append(@, k)]

\* `if stack: stack[-1].add_subsection(section) else: root_sections.append(section)`
\* followed by `stack.append(section)`
AttachNoPush(st, k) ==
    IF st.stack # <<>>
    THEN [st EXCEPT !.subs = AddSubsection(@, Last(st.stack), k)]
    ELSE [st EXCEPT !.roots = Append(@, k), !.stack = <<k>>]
AttachRootFirst(st, k) ==
    IF st.stack # <<>>
    THEN [st EXCEPT !.subs = AddSubsection(@, Last(st.stack), k),
                    !.stack = Append(@, k)]
    ELSE [st EXCEPT !.roots = <<k>> \o @, !.stack = <<k>>]
Attach(st, k) ==
    IF st.stack # <<>>
    THEN [st EXCEPT !.subs = AddSubsection(@, Last(st.stack), k),
                    !.stack = Append(@, k)]
    ELSE [st EXCEPT !.roots = Append(@, k), !.stack = <<k>>]

\* the climb loop of the config copy
RECURSIVE ClimbConfig(_, _, _, _)
ClimbConfig(stk, f, prev_level, curr_level) ==
    IF Len(stk) > 1 /\ OrOne(FeaturesGet(f[Last(stk)], prev_level)) >= curr_level
    THEN ClimbConfig(Pop(stk), f, prev_level, curr_level)
    ELSE stk

\* `det.level or 1`
CurrLevelZero(d) == IF d = None THEN 0 ELSE d
CurrLevel(d) == OrOne(d)

\* one iteration of the loop of the config copy for heading k with det.level d
ConfigStep(st, k, d) ==
    IF st.stack = <<>>
    THEN [st EXCEPT !.roots = Append(@, k), !.stack = <<k>>]
    ELSE LET top == Last(st.stack)
             prev_level == OrOne(FeaturesGet(st.feat[top], d))
             curr_level == CurrLevel(d)
             placed ==
                IF curr_level > prev_level
                THEN [st EXCEPT !.subs = AddSubsection(@, top, k),
                                !.stack = Append(@, k)]
                ELSE IF curr_level = prev_level
                THEN Attach([st EXCEPT !.stack = Pop(@)], k)
                ELSE Attach([st EXCEPT !.stack =
                                ClimbConfig(@, st.feat, prev_level, curr_level)], k)
         IN [placed EXCEPT !.feat[k] = curr_level]

\* one iteration of the loop of the schema copy: Section has no attribute
\* `level`, so evaluating stack[-1].level raises AttributeError
SchemaStep(st, k, d) ==
    IF st.stack = <<>>
    THEN [st EXCEPT !.roots = Append(@, k), !.stack = <<k>>]
    ELSE [st EXCEPT !.pc = "raised"]

BuilderStepAlwaysNest(b, st, k, d) ==
    IF b = "config" /\ st.stack # <<>>
    THEN [st EXCEPT !.subs = AddSubsection(@, Last(st.stack), k),
                    !.stack = Append(@, k),
                    !.feat[k] = CurrLevel(d)]
    ELSE IF b = "config" THEN ConfigStep(st, k, d) ELSE SchemaStep(st, k, d)
BuilderStep(b, st, k, d) ==
    IF b = "config" THEN ConfigStep(st, k, d) ELSE SchemaStep(st, k, d)

\* state at entry of build_sections_from_headings
BuildStart(levels, has) ==
    [roots |-> <<>>, stack |-> <<>>, pc |-> "run",
     subs |-> [k \in 1..Len(levels) |-> <<>>],
     feat |-> [k \in 1..Len(levels) |-> IF has[k] THEN levels[k] ELSE Absent]]

\* the whole call: the loop over zip(detections, descriptors), then return
RECURSIVE BuildFrom(_, _, _, _)
BuildFrom(b, levels, st, k) ==
    IF st.pc = "raised" THEN st
    ELSE IF k > Len(levels) THEN [st EXCEPT !.pc = "done"]
    ELSE BuildFrom(b, levels, BuilderStep(b, st, k, levels[k]), k + 1)

build_sections_from_headings(b, levels, has) ==
    LET n == ZipLen(levels, has)
        paired == SubSeq(levels, 1, n)
    IN BuildFrom(b, paired, BuildStart(paired, SubSeq(has, 1, n)), 1)

secVars == <<builder, dets, carried, i, roots, subs, stack, feat, pc, prevStack>>

Cur == [roots |-> roots, subs |-> subs, stack |-> stack, feat |-> feat, pc |-> pc]

\* one iteration of `for det, desc in zip(detections, descriptors)`
ProcessHeading ==
    /\ pc = "run"
    /\ i < ZipLen(dets, carried)
    /\ LET nxt == BuilderStep(builder, Cur, i + 1, dets[i + 1])
       IN /\ roots' = nxt.roots
          /\ subs' = nxt.subs
          /\ stack' = nxt.stack
          /\ feat' = nxt.feat
          /\ pc' = nxt.pc
    /\ prevStack' = stack
    /\ i' = i + 1
    /\ UNCHANGED <<builder, dets, carried>>
    /\ UNCHANGED <<rVars, auxVars>>

\* `return root_sections`
ReturnSections ==
    /\ pc = "run"
    /\ i = ZipLen(dets, carried)
    /\ pc' = "done"
    /\ UNCHANGED <<builder, dets, carried, i, roots, subs, stack, feat, prevStack>>
    /\ UNCHANGED <<rVars, auxVars>>

NextSections == ProcessHeading \/ ReturnSections

(***************************************************************************)
(* Strings.  A line is a sequence of characters over a small alphabet that *)
(* has a lower-case letter, an upper-case letter, the colon and the space. *)
(***************************************************************************)
Chars == {"a", "A", ":", " "}
Lines == UNION {[1..n -> Chars] : n \in 0..MaxLineLen}

IsAlpha(c) == c \in {"a", "A"}

\* str.lower()
Lower(s) == IF s = <<>> THEN <<>>
            ELSE [j \in 1..Len(s) |-> IF s[j] = "A" THEN "a" ELSE s[j]]

RECURSIVE LStrip(_)
LStrip(s) == IF s # <<>> /\ s[1] = " " THEN LStrip(Tail(s)) ELSE s
RECURSIVE RStrip(_)
RStrip(s) == IF s # <<>> /\ Last(s) = " " THEN RStrip(Pop(s)) ELSE s
\* str.strip()
Strip(s) == RStrip(LStrip(s))

(***************************************************************************)
(* Python values handed between the router, the detectors and the          *)
(* coercion, tagged with what isinstance() can see.                        *)
(***************************************************************************)
StrValue(s) == [kind |-> "str", cls |-> "str", items |-> <<>>, str |-> s]
ListValue(c, xs) == [kind |-> "list", cls |-> c, items |-> xs, str |-> <<>>]
ObjValue(c, x) == [kind |-> "object", cls |-> c, items |-> <<x>>, str |-> <<>>]
NoneValue == [kind |-> "None", cls |-> "NoneType", items |-> <<>>, str |-> <<>>]
\* an exception leaving the call instead of a value
Raised == [kind |-> "raise", cls |-> "Exception", items |-> <<>>, str |-> <<>>]
IsRaise(v) == v.kind = "raise"

\* truth value of `if m:`
Truthy(v) ==
    CASE v.kind = "str" -> v.str # <<>>
      [] v.kind = "list" -> v.items # <<>>
      [] v.kind = "object" -> TRUE
      [] OTHER -> FALSE

\* a detection dataclass instance (scores in hundredths)
Detection(idx, label, score, method, title) ==
    [line_idx |-> idx, label |-> label, score |-> score, method |-> method,
     title |-> title]

\* coerce_to_lines: a list is taken as it is; a str has neither a `text` nor
\* a `lines` attribute, so it yields no line at all
CoerceToLines(source) == IF source.kind = "list" THEN source.items ELSE <<>>

(***************************************************************************)
(* Exact matcher                                                           *)
(***************************************************************************)
\* candidate titles: None, or a list of titles
NoTitles == [isNone |-> TRUE, items |-> <<>>]
TitleList(ts) == [isNone |-> FALSE, items |-> ts]
TitlesTruthy(tc) == ~tc.isNone /\ tc.items # <<>>

CandKey(c, ci) == IF ci THEN Lower(Strip(c)) ELSE Strip(c)
\* cand_norm: `key in cand_norm` and cand_norm[key] (setdefault keeps the first)
CandNormHas(cands, key, ci) == \E j \in DOMAIN cands : CandKey(cands[j], ci) = key
CandNormGet(cands, key, ci) ==
    LET js == {j \in DOMAIN cands : CandKey(cands[j], ci) = key}
    IN Strip(cands[CHOOSE j \in js : \A m \in js : j <= m])

\* the body of the loop of find_exact_matches for line `raw` at index idx
ExactLine(idx, raw, cands, ci) ==
    LET s == Strip(raw)
        s_trim == IF s # <<>> /\ Last(s) = ":" THEN Pop(s) ELSE s
        k1 == IF ci THEN Lower(s_trim) ELSE s_trim
        k2 == IF ci THEN Lower(s) ELSE s
    IN IF CandNormHas(cands, k1, ci)
       THEN <<Detection(idx, "exact", 100, "exact", CandNormGet(cands, k1, ci))>>
       ELSE IF CandNormHas(cands, k2, ci)
       THEN <<Detection(idx, "exact", 100, "exact", CandNormGet(cands, k2, ci))>>
       ELSE <<>>

RECURSIVE ExactFrom(_, _, _, _)
ExactFrom(L, j, cands, ci) ==
    IF j > Len(L) THEN <<>>
    ELSE ExactLine(j - 1, L[j], cands, ci) \o ExactFrom(L, j + 1, cands, ci)

find_exact_matches(source, cands, ci) == ExactFrom(CoerceToLines(source), 1, cands, ci)

\* exact_matcher.match
ExactMatch(text, candidates) ==
    IF candidates.isNone THEN ListValue("exact_matcher.Detection", <<>>)
    ELSE ListValue("exact_matcher.Detection",
                   find_exact_matches(text, candidates.items, TRUE))

(***************************************************************************)
(* Heuristic detectors.  The clue scoring of a line is an input of the     *)
(* call: would[d] is the clamped score detector d's scorer gives the line. *)
(***************************************************************************)
HEURISTIC_ORDER_Reversed == <<"callout", "table", "paragraph", "list", "heading">>
HEURISTIC_ORDER == <<"heading", "list", "paragraph", "table", "callout">>
Detectors == {"heading", "list", "paragraph", "table", "callout", "semantic"}
\* a score below every threshold and one above every threshold
WouldScores == {0, 90}
\* the scorer raises instead of returning a score
Raises == -1
\* the scorer is run on a line of L and raises
ScorerRaises(L, score) == L # <<>> /\ score = Raises

HeadingThreshold == 55
ListThreshold == 55
ParagraphThreshold == 55
TableThreshold == 55
CalloutThreshold == 50
SemanticThreshold == 82

\* detect_lists / detect_tables / CalloutHeuristicDetector.detect: one
\* detection for every line of coerce_to_lines(source) scoring >= threshold
RECURSIVE DetectLinesStrict(_, _, _, _, _)
DetectLinesStrict(scores, j, threshold, label, method) ==
    IF j > Len(scores) THEN <<>>
    ELSE (IF scores[j] > threshold
          THEN <<Detection(j - 1, label, scores[j], method, <<>>)>> ELSE <<>>)
         \o DetectLinesStrict(scores, j + 1, threshold, label, method)
\* `for i, s in enumerate(lines): sc = <scorer>(s); if sc >= threshold: append`
\* with scores[j] the score of line j
RECURSIVE DetectLines(_, _, _, _, _)
DetectLines(scores, j, threshold, label, method) ==
    IF j > Len(scores) THEN <<>>
    ELSE (IF scores[j] >= threshold
          THEN <<Detection(j - 1, label, scores[j], method, <<>>)>> ELSE <<>>)
         \o DetectLines(scores, j + 1, threshold, label, method)

\* the same loop when every line of L gets the score `score`
DetectFrom(L, j, score, threshold, label, method) ==
    DetectLines([k \in DOMAIN L |-> score], j, threshold, label, method)

\* list_detector.match
ListMatch(lines, would) ==
    IF ScorerRaises(CoerceToLines(lines), would["list"]) THEN Raised ELSE
    ListValue("ListDetection",
              DetectFrom(CoerceToLines(lines), 1, would["list"], ListThreshold,
                         "list", "heuristic"))
\* table_detector.match
TableMatch(lines, would) ==
    IF ScorerRaises(CoerceToLines(lines), would["table"]) THEN Raised ELSE
    ListValue("table_detector.TableDetection",
              DetectFrom(CoerceToLines(lines), 1, would["table"], TableThreshold,
                         "T-ROW", "heuristic"))
\* callouts.match
CalloutMatch(lines, would) ==
    IF ScorerRaises(CoerceToLines(lines), would["callout"]) THEN Raised ELSE
    ListValue("DetectedCallout",
              DetectFrom(CoerceToLines(lines), 1, would["callout"], CalloutThreshold,
                         "callout", "heuristic"))

\* the lines a router-facing entry point scores: the line it is given
LinesOf(v) == IF v.kind = "str" THEN <<v.str>> ELSE CoerceToLines(v)

\* heading_detector.match, paragraph_detector.match, semantic_classifier.match:
\* named by MATCHERS but not defined in their modules
HeadingMatch(lines, would) ==
    IF ScorerRaises(LinesOf(lines), would["heading"]) THEN Raised ELSE
    ListValue("HeadingDetection",
              DetectFrom(LinesOf(lines), 1, would["heading"], HeadingThreshold,
                         "heading", "heuristic"))
ParagraphMatch(lines, would) ==
    IF ScorerRaises(LinesOf(lines), would["paragraph"]) THEN Raised ELSE
    ListValue("ParagraphDetection",
              DetectFrom(LinesOf(lines), 1, would["paragraph"], ParagraphThreshold,
                         "paragraph", "heuristic"))
SemanticMatch(lines, would) ==
    IF ScorerRaises(LinesOf(lines), would["semantic"]) THEN Raised ELSE
    ListValue("SemanticPrediction",
              DetectFrom(LinesOf(lines), 1, would["semantic"], SemanticThreshold,
                         "semantic", "semantic"))

\* MATCHERS["heuristic"][key](text, ...)
HeuristicMatch(key, lines, would) ==
    CASE key = "heading" -> HeadingMatch(lines, would)
      [] key = "list" -> ListMatch(lines, would)
      [] key = "paragraph" -> ParagraphMatch(lines, would)
      [] key = "table" -> TableMatch(lines, would)
      [] key = "callout" -> CalloutMatch(lines, would)

\* f"HEURISTIC-{key.upper()}"
HeuristicSignal(key) ==
    CASE key = "heading" -> "HEURISTIC-HEADING"
      [] key = "list" -> "HEURISTIC-LIST"
      [] key = "paragraph" -> "HEURISTIC-PARAGRAPH"
      [] key = "table" -> "HEURISTIC-TABLE"
      [] key = "callout" -> "HEURISTIC-CALLOUT"

(***************************************************************************)
(* Regex fallback.  A pattern is the sequence of its pieces.  Over Chars   *)
(* no line has the e-mail, URL, phone, date, numbered or bulleted shape.   *)
(***************************************************************************)
\* re.findall(r"[A-Za-z]+|\d+|[^\w\s]|\s+", text), each token as its piece
RECURSIVE RunLen(_, _)
RunLen(t, alpha) ==
    IF t # <<>> /\ (IF alpha THEN IsAlpha(t[1]) ELSE t[1] = " ")
    THEN 1 + RunLen(Tail(t), alpha) ELSE 0

RECURSIVE TokenPieces(_)
TokenPieces(t) ==
    IF t = <<>> THEN <<>>
    ELSE IF IsAlpha(t[1])
    THEN <<"[A-Za-z]+">> \o TokenPieces(SubSeq(t, RunLen(t, TRUE) + 1, Len(t)))
    ELSE IF t[1] = " "
    THEN <<"\\s+">> \o TokenPieces(SubSeq(t, RunLen(t, FALSE) + 1, Len(t)))
    ELSE <<t[1]>> \o TokenPieces(Tail(t))

\* re.match(r"^[A-Za-z\s]+:\s*$", text) on a stripped text
IsColonHeading(t) ==
    /\ Len(t) >= 2
    /\ Last(t) = ":"
    /\ \A j \in 1..(Len(t) - 1) : IsAlpha(t[j]) \/ t[j] = " "

normalize_to_regex(line) ==
    LET t == Strip(line)
    IN IF t = <<>> THEN <<"^\\s*$">>
       ELSE IF IsColonHeading(t) THEN <<"^[A-Za-z\\s]+:\\s*$">>
       ELSE <<"^">> \o TokenPieces(t) \o <<"$">>

HasPiece(pattern, piece) == \E j \in DOMAIN pattern : pattern[j] = piece

\* _regex_score
RegexScore(pattern) ==
    IF \E piece \in {"\\d{4}", "@", "https?", "\\d+\\)", "\\d+\\."} : HasPiece(pattern, piece)
    THEN 60
    ELSE IF HasPiece(pattern, "[A-Za-z]+") /\ HasPiece(pattern, "\\d+") THEN 50
    ELSE 30

\* classify_regex: of its tests only pattern.endswith(":$") can hold here
classify_regex(pattern) ==
    IF Len(pattern) >= 2 /\ pattern[Len(pattern) - 1] = ":" /\ Last(pattern) = "$"
    THEN "REGEX-H-COLON" ELSE "REGEX-UNKNOWN"

RECURSIVE RegexFromSkipBlank(_, _)
RECURSIVE RegexFrom(_, _)
RegexFromSkipBlank(L, j) ==
    IF j > Len(L) THEN <<>>
    ELSE IF Strip(L[j]) = <<>> THEN RegexFromSkipBlank(L, j + 1)
    ELSE LET text == Strip(L[j])
             pattern == normalize_to_regex(text)
         IN <<[line_idx |-> j - 1, title |-> text, score |-> RegexScore(pattern),
               pattern |-> pattern, label |-> classify_regex(pattern),
               method |-> "regex"]>> \o RegexFromSkipBlank(L, j + 1)
RegexFrom(L, j) ==
    IF j > Len(L) THEN <<>>
    ELSE LET text == Strip(L[j])
             pattern == normalize_to_regex(text)
         IN <<[line_idx |-> j - 1, title |-> text, score |-> RegexScore(pattern),
               pattern |-> pattern, label |-> classify_regex(pattern),
               method |-> "regex"]>> \o RegexFrom(L, j + 1)

\* regex_fallback: one RegexDetection per line
regex_fallback(lines) == RegexFrom(CoerceToLines(lines), 1)

\* max(hits, key=score): the first element of greatest score
BestOf(xs) ==
    xs[CHOOSE j \in DOMAIN xs :
          \A m \in DOMAIN xs : xs[m].score < xs[j].score
                               \/ (xs[m].score = xs[j].score /\ j <= m)]

\* regex_maker.match
RegexMatchBlankNone(lines) ==
    LET hits == regex_fallback(IF lines.kind = "str"
                               THEN ListValue("str", <<lines.str>>) ELSE lines)
    IN IF hits = <<>> \/ Strip(lines.str) = <<>> THEN NoneValue
       ELSE ObjValue("RegexDetection", BestOf(hits))
RegexMatch(lines) ==
    LET hits == regex_fallback(IF lines.kind = "str"
                               THEN ListValue("str", <<lines.str>>) ELSE lines)
    IN IF hits = <<>> THEN NoneValue ELSE ObjValue("RegexDetection", BestOf(hits))

(***************************************************************************)
(* PatternDescriptor and coerce_to_descriptor                              *)
(***************************************************************************)
TypeCode(c) == [isLine |-> FALSE, code |-> c, line |-> <<>>]
\* `type or class_ or "UNKNOWN"` when the type given is a line of text
TypeLine(l) == IF l = <<>> THEN TypeCode("UNKNOWN")
               ELSE [isLine |-> TRUE, code |-> "", line |-> l]

\* PatternDescriptor(...): features["text"] is hasText/text
Descriptor(type, signals, confidence, hasText, text) ==
    [type |-> type, signals |-> signals, confidence |-> confidence,
     hasText |-> hasText, text |-> text]

\* 1.0 if signal in {"EXACT", "REGEX"} else 0.0
StrConfidenceExactOnly(signal) == IF signal = "EXACT" THEN 100 ELSE 0
StrConfidence(signal) == IF signal \in {"EXACT", "REGEX"} THEN 100 ELSE 0

\* the dataclasses coerce_to_descriptor tests with isinstance
CoercedHeuristics == {"ParagraphDetection", "HeadingDetection", "ListDetection",
                      "tabular_detector.TableDetection", "CalloutDetection"}

\* coerce_to_descriptor for a single (non-list) value
CoerceOne(kind, cls, x, signal, text) ==
    IF kind = "str"
    THEN Descriptor(TypeLine(x), <<signal>>, StrConfidence(signal), TRUE, text)
    ELSE IF cls \in CoercedHeuristics
    THEN Descriptor(TypeCode(x.label), <<signal>>, x.score, TRUE, text)
    ELSE IF cls = "SemanticPrediction"
    THEN Descriptor(TypeCode("P-BODY"), <<"SEMANTIC">>, x.score, FALSE, <<>>)
    ELSE IF cls = "RegexDetection"
    THEN Descriptor(TypeCode(x.label), <<signal>>, x.score, TRUE, x.title)
    ELSE Descriptor(TypeCode("UNKNOWN"), <<signal>>, 0, TRUE, text)

coerce_to_descriptor(raw, signal, text) ==
    IF raw.kind = "str" THEN CoerceOne("str", "str", raw.str, signal, text)
    ELSE IF raw.kind = "list" /\ raw.items # <<>> /\ raw.cls = "str"
    THEN CoerceOne("str", "str", raw.items[1], signal, text)
    ELSE IF raw.kind = "object"
    THEN CoerceOne("object", raw.cls, raw.items[1], signal, text)
    ELSE IF raw.kind = "list" /\ raw.items # <<>> /\ raw.cls = "SemanticPrediction"
    THEN CoerceOne("object", raw.cls, BestOf(raw.items), "SEMANTIC", text)
    ELSE IF raw.kind = "list" /\ raw.items # <<>> /\ raw.cls \in CoercedHeuristics
    THEN CoerceOne("object", raw.cls, BestOf(raw.items), signal, text)
    ELSE Descriptor(TypeCode("UNKNOWN"), <<signal>>, 0, TRUE, text)

(***************************************************************************)
(* route_match                                                             *)
(***************************************************************************)
NoSignal == "<None>"       \* signal=None
NoStructure == "<None>"    \* structure=None
Signals == {NoSignal, "", "EXACT", "REGEX", "SEMANTIC"}
Structures == {NoStructure, "heading", "list", "paragraph", "table", "callout",
               "other"}
TitleConfigs == {NoTitles, TitleList(<<>>), TitleList(<<<<"a">>>>),
                 TitleList(<<<<"A", ":">>, <<" ", "a">>>>)}

SignalTruthy(signal) == signal \notin {NoSignal, ""}
HeuristicKeys == {HEURISTIC_ORDER[j] : j \in DOMAIN HEURISTIC_ORDER}

Returned(desc, calls) == [desc |-> desc, calls |-> calls, raised |-> FALSE]
\* no descriptor: the call has not returned one
NoDescriptor == Descriptor(TypeCode(""), <<>>, 0, FALSE, <<>>)
\* route_match has no try/except: an exception raised in a matcher leaves it
Propagated(calls) == [desc |-> NoDescriptor, calls |-> calls, raised |-> TRUE]

\* the terminal descriptor of route_match
FallbackDescriptor(text) ==
    Descriptor(TypeCode("UNKNOWN"), <<"FALLBACK">>, 0, TRUE, text)

\* steps 4 and 5: semantic, then the terminal descriptor
SemanticOnward(text, would, calls) ==
    LET m == SemanticMatch(StrValue(text), would)
    IN IF IsRaise(m) THEN Propagated(Append(calls, "semantic"))
       ELSE IF Truthy(m)
       THEN Returned(coerce_to_descriptor(m, "SEMANTIC", text), Append(calls, "semantic"))
       ELSE Returned(FallbackDescriptor(text), Append(calls, "semantic"))

\* step 3 onward: regex, semantic, terminal descriptor
RegexOnward(text, would, calls) ==
    LET m == RegexMatch(StrValue(text))
    IN IF Truthy(m)
       THEN Returned(coerce_to_descriptor(m, "REGEX", text), Append(calls, "regex"))
       ELSE SemanticOnward(text, would, Append(calls, "regex"))

\* step 2 without a usable hint: every heuristic in HEURISTIC_ORDER, then the
\* regex inside the else branch, then step 3 onward
RECURSIVE AllHeuristics(_, _, _, _)
AllHeuristics(j, text, would, calls) ==
    IF j > Len(HEURISTIC_ORDER)
    THEN LET m == RegexMatch(StrValue(text))
         IN IF Truthy(m)
            THEN Returned(coerce_to_descriptor(m, "REGEX", text), Append(calls, "regex"))
            ELSE RegexOnward(text, would, Append(calls, "regex"))
    ELSE LET key == HEURISTIC_ORDER[j]
             m == HeuristicMatch(key, StrValue(text), would)
         IN IF IsRaise(m) THEN Propagated(Append(calls, key))
            ELSE IF Truthy(m)
            THEN Returned(coerce_to_descriptor(m, HeuristicSignal(key), text),
                          Append(calls, key))
            ELSE AllHeuristics(j + 1, text, would, Append(calls, key))

\* step 2 onward
HeuristicOnwardRegexFirst(text, structure, would, calls) ==
    LET m == RegexMatch(StrValue(text))
    IN IF Truthy(m)
       THEN Returned(coerce_to_descriptor(m, "REGEX", text), Append(calls, "regex"))
       ELSE AllHeuristics(1, text, would, Append(calls, "regex"))
HeuristicOnward(text, structure, would, calls) ==
    IF structure # NoStructure /\ structure # "" /\ structure \in HeuristicKeys
    THEN LET m == HeuristicMatch(structure, StrValue(text), would)
         IN IF IsRaise(m) THEN Propagated(Append(calls, structure))
            ELSE IF Truthy(m)
            THEN Returned(coerce_to_descriptor(m, HeuristicSignal(structure), text),
                          Append(calls, structure))
            ELSE RegexOnward(text, would, Append(calls, structure))
    ELSE AllHeuristics(1, text, would, calls)

route_match(text, structure, titles_config, signal, would) ==
    IF SignalTruthy(signal)
    THEN Returned(coerce_to_descriptor(StrValue(text), signal, text), <<>>)
    ELSE IF TitlesTruthy(titles_config)
    THEN LET m == ExactMatch(StrValue(text), titles_config)
         IN IF Truthy(m)
            THEN Returned(coerce_to_descriptor(m, "EXACT", text), <<"exact">>)
            ELSE HeuristicOnward(text, structure, would, <<"exact">>)
    ELSE HeuristicOnward(text, structure, would, <<>>)

\* no call of route_match made
RouterIdle ==
    /\ rText = <<>>
    /\ rStructure = NoStructure
    /\ rTitles = NoTitles
    /\ rSignal = NoSignal
    /\ rWould = [d \in Detectors |-> 0]
    /\ rDesc = NoDescriptor
    /\ rCalls = <<>>
    /\ rPc = "idle"

\* no call of build_sections_from_headings made
SectionsIdle ==
    /\ builder = "config"
    /\ dets = <<>>
    /\ carried = <<>>
    /\ i = 0
    /\ roots = <<>>
    /\ stack = <<>>
    /\ prevStack = <<>>
    /\ pc = "run"
    /\ subs = <<>>
    /\ feat = <<>>

InitRouter == RouterIdle /\ SectionsIdle /\ AuxIdle

\* the arguments of one call of build_sections_from_headings
SectionsStart ==
    /\ builder \in {"config", "schema"}
    /\ dets \in UNION {[1..n -> Levels] : n \in 0..MaxHeadings}
    /\ carried \in UNION {[1..m -> BOOLEAN] :
                            m \in {m \in 0..MaxHeadings :
                                     /\ m - Len(dets) <= MaxSurplus
                                     /\ Len(dets) - m <= MaxSurplus}}
    /\ i = 0
    /\ roots = <<>>
    /\ stack = <<>>
    /\ prevStack = <<>>
    /\ pc = "run"
    /\ subs = [k \in 1..ZipLen(dets, carried) |-> <<>>]
    /\ feat = [k \in 1..ZipLen(dets, carried) |->
                  IF carried[k] THEN dets[k] ELSE Absent]

InitSections == SectionsStart /\ RouterIdle /\ AuxIdle

SpecSections == InitSections /\ [][NextSections]_allVars

\* one call route_match(text, structure=..., titles_config=..., signal=...)
RouteMatchCall ==
    /\ rPc = "idle"
    /\ \E text \in Lines, structure \in Structures, titles_config \in TitleConfigs,
          signal \in Signals, would \in [Detectors -> WouldScores] :
           LET r == route_match(text, structure, titles_config, signal, would)
           IN /\ rText' = text
              /\ rStructure' = structure
              /\ rTitles' = titles_config
              /\ rSignal' = signal
              /\ rWould' = would
              /\ rDesc' = r.desc
              /\ rCalls' = r.calls
              /\ rPc' = IF r.raised THEN "raised" ELSE "returned"
              /\ UNCHANGED <<secVars, auxVars>>

NextRouter == RouteMatchCall

SpecRouter == InitRouter /\ [][NextRouter]_allVars

(***************************************************************************)
(* Two calls with identical arguments.  PatternDescriptor.__init__ takes   *)
(* the descriptor id from id(self), the address of the new object: any     *)
(* address no live object occupies.                                        *)
(***************************************************************************)
MaxObjects == 2       \* addresses a descriptor can be allocated at
Addresses == 1..MaxObjects

\* f"pat_{id(self)}" of a descriptor created while the objects `live` exist
NewIds(live) == Addresses \ live

\* scorer outcomes of the repeated call: every scorer low, or every scorer high
RepeatWould == {[d \in Detectors |-> w] : w \in WouldScores}

\* the first call
FirstCall ==
    /\ rPc = "idle"
    /\ \E text \in Lines, structure \in Structures, titles_config \in TitleConfigs,
          signal \in Signals, would \in RepeatWould, id \in NewIds({}) :
           LET r == route_match(text, structure, titles_config, signal, would)
           IN /\ rText' = text
              /\ rStructure' = structure
              /\ rTitles' = titles_config
              /\ rSignal' = signal
              /\ rWould' = would
              /\ rDesc' = r.desc
              /\ rCalls' = r.calls
              /\ rPc' = "returned"
              /\ rId' = id
              /\ rHeld' = TRUE
              /\ UNCHANGED <<secVars, r2Desc, r2Id, scoreVars, normVars, domVars, emaVars, detVars>>

\* the caller drops its reference to the first descriptor; the object is freed
ReleaseFirst ==
    /\ rPc = "returned"
    /\ rHeld
    /\ rHeld' = FALSE
    /\ UNCHANGED <<secVars, rVars, rId, r2Desc, r2Id, scoreVars, normVars, domVars, emaVars, detVars>>

\* the second call, same arguments
SecondCall ==
    /\ rPc = "returned"
    /\ \E id \in NewIds(IF rHeld THEN {rId} ELSE {}) :
           LET r == route_match(rText, rStructure, rTitles, rSignal, rWould)
           IN /\ r2Desc' = r.desc
              /\ r2Id' = id
              /\ rPc' = "returned2"
              /\ UNCHANGED <<secVars, rText, rStructure, rTitles, rSignal, rWould,
                             rDesc, rCalls, rId, rHeld, scoreVars, normVars, domVars,
                             emaVars, detVars>>

NextRepeat == FirstCall \/ ReleaseFirst \/ SecondCall

SpecRepeat == InitRouter /\ [][NextRepeat]_allVars

(***************************************************************************)
(* One call in which a scorer may raise.                                   *)
(***************************************************************************)
RouteMatchFaulty ==
    /\ rPc = "idle"
    /\ \E text \in Lines, structure \in Structures,
          would \in [Detectors -> WouldScores \cup {Raises}] :
           LET r == route_match(text, structure, NoTitles, NoSignal, would)
           IN /\ rText' = text
              /\ rStructure' = structure
              /\ rTitles' = NoTitles
              /\ rSignal' = NoSignal
              /\ rWould' = would
              /\ rDesc' = r.desc
              /\ rCalls' = r.calls
              /\ rPc' = IF r.raised THEN "raised" ELSE "returned"
              /\ UNCHANGED <<secVars, auxVars>>

NextFaulty == RouteMatchFaulty

SpecFaulty == InitRouter /\ [][NextFaulty]_allVars

(***************************************************************************)
(* Scorers.  What a scorer reads off the line (which clue regexes match,   *)
(* which counts and ratios pass their cut-offs, which feature flags are    *)
(* set) is the input; the score is computed from it as the code does, in   *)
(* hundredths.                                                             *)
(***************************************************************************)
Max(a, b) == IF a >= b THEN a ELSE b
Min(a, b) == IF a <= b THEN a ELSE b

\* max(0.0, min(1.0, score))
ClampNone(score) == score
Clamp(score) == Max(0, Min(100, score))

\* sum of the weights of the entries of `table` whose name is in `fired`
RECURSIVE WeightSum(_, _, _)
WeightSum(table, j, fired) ==
    IF j > Len(table) THEN 0
    ELSE (IF table[j].name \in fired THEN table[j].weight ELSE 0)
         + WeightSum(table, j + 1, fired)

\* BASE_CLUES of the heading detector
BASE_CLUES ==
    << [name |-> "all_caps", weight |-> 55],
       [name |-> "title_case", weight |-> 39],
       [name |-> "trailing_colon", weight |-> 25],
       [name |-> "title_case_with_colon", weight |-> 39],
       [name |-> "num_heading", weight |-> 30],
       [name |-> "roman_heading", weight |-> 30],
       [name |-> "title_after_num", weight |-> 39],
       [name |-> "bullet_or_dash", weight |-> -30],
       [name |-> "toc_dots", weight |-> -20] >>

\* SYNERGY_RULES
SYNERGY_RULES ==
    << [need |-> {"num_heading", "title_after_num"}, bonus |-> 50],
       [need |-> {"roman_heading", "title_after_num"}, bonus |-> 10],
       [need |-> {"trailing_colon", "title_case"}, bonus |-> 25] >>

RECURSIVE SynergySum(_, _)
SynergySum(j, fired) ==
    IF j > Len(SYNERGY_RULES) THEN 0
    ELSE (IF SYNERGY_RULES[j].need \subseteq fired THEN SYNERGY_RULES[j].bonus ELSE 0)
         + SynergySum(j + 1, fired)

\* the feature adjustments of score_heading
HeadingFeatures(fired) ==
    (IF "bold" \in fired THEN 10 ELSE 0)
    + (IF "font_size>=14" \in fired THEN 10 ELSE 0)
    + (IF "contains_list_numbering" \in fired
          /\ {"num_heading", "roman_heading"} \cap fired = {}
       THEN -15 ELSE 0)

\* score_heading before its final clamp
HeadingRaw(fired) ==
    WeightSum(BASE_CLUES, 1, fired) + HeadingFeatures(fired) + SynergySum(1, fired)

\* score_heading; "empty" stands for a line that normalizes to ""
score_heading(fired) ==
    IF "empty" \in fired THEN 0 ELSE Clamp(HeadingRaw(fired))

HeadingInputs ==
    {"empty", "bold", "font_size>=14", "contains_list_numbering"}
    \cup {BASE_CLUES[j].name : j \in DOMAIN BASE_CLUES}

\* score_list_line: the first pattern that matches decides
score_list_line(fired) ==
    IF "empty" \in fired THEN 0
    ELSE IF "bullet" \in fired THEN 90
    ELSE IF "ordered" \in fired THEN 90
    ELSE IF "definition" \in fired THEN 80
    ELSE IF "indented" \in fired THEN 60
    ELSE 0

ListInputs == {"empty", "bullet", "ordered", "definition", "indented"}

\* the signals of score_paragraph and of its feature block
ParagraphSignals ==
    << [name |-> "tokens>=8", weight |-> 40],
       [name |-> "punctuation", weight |-> 20],
       [name |-> "ends_with_period", weight |-> 20],
       [name |-> "multi_sentence", weight |-> 20],
       [name |-> "avg_token_len>=4", weight |-> 10],
       [name |-> "contains_stopwords", weight |-> 10],
       [name |-> "all_caps", weight |-> -50],
       [name |-> "bullet", weight |-> -50],
       [name |-> "toc_dots", weight |-> -50],
       [name |-> "too_short", weight |-> -50],
       [name |-> "ends_with_colon", weight |-> -30],
       [name |-> "upper_ratio_high", weight |-> -40],
       [name |-> "digit_ratio_high", weight |-> -40],
       [name |-> "symbol_ratio_high", weight |-> -30],
       [name |-> "contains_text", weight |-> 10],
       [name |-> "bold", weight |-> -25],
       [name |-> "font_size>=14", weight |-> -33] >>

score_paragraph(fired) ==
    IF "empty" \in fired THEN 0 ELSE Clamp(WeightSum(ParagraphSignals, 1, fired))

ParagraphInputs ==
    {"empty"} \cup {ParagraphSignals[j].name : j \in DOMAIN ParagraphSignals}

\* the signals of score_table_line
TableSignals ==
    << [name |-> "multi_column", weight |-> 80],
       [name |-> "delimiter", weight |-> 30],
       [name |-> "digit_ratio", weight |-> 30],
       [name |-> "grid_border", weight |-> 90],
       [name |-> "stopwords", weight |-> -30] >>

score_table_line(fired) ==
    IF "empty" \in fired THEN 0 ELSE Clamp(WeightSum(TableSignals, 1, fired))

TableInputs == {"empty"} \cup {TableSignals[j].name : j \in DOMAIN TableSignals}

\* the cues of score_callout_line
CalloutCues ==
    << [name |-> "warning", weight |-> 90],
       [name |-> "quote_or_attribution", weight |-> 70],
       [name |-> "mono", weight |-> 60] >>

\* score_callout_line: an indented line scores 0.8 outright
score_callout_line(fired) ==
    IF "empty" \in fired THEN 0
    ELSE IF "indented" \in fired THEN 80
    ELSE Min(100, WeightSum(CalloutCues, 1, fired))

CalloutInputs ==
    {"empty", "indented"} \cup {CalloutCues[j].name : j \in DOMAIN CalloutCues}

\* the scorer of each heuristic detector, its threshold, dataclass and label
HeuristicScore(d, fired) ==
    CASE d = "heading" -> score_heading(fired)
      [] d = "list" -> score_list_line(fired)
      [] d = "paragraph" -> score_paragraph(fired)
      [] d = "table" -> score_table_line(fired)
      [] d = "callout" -> score_callout_line(fired)
HeuristicInputs(d) ==
    CASE d = "heading" -> HeadingInputs
      [] d = "list" -> ListInputs
      [] d = "paragraph" -> ParagraphInputs
      [] d = "table" -> TableInputs
      [] d = "callout" -> CalloutInputs
HeuristicThreshold(d) ==
    CASE d = "heading" -> HeadingThreshold
      [] d = "list" -> ListThreshold
      [] d = "paragraph" -> ParagraphThreshold
      [] d = "table" -> TableThreshold
      [] d = "callout" -> CalloutThreshold
HeuristicClass(d) ==
    CASE d = "heading" -> "HeadingDetection"
      [] d = "list" -> "ListDetection"
      [] d = "paragraph" -> "ParagraphDetection"
      [] d = "table" -> "table_detector.TableDetection"
      [] d = "callout" -> "DetectedCallout"
HeuristicLabel(d) == IF d = "table" THEN "T-ROW" ELSE d

\* difflib.SequenceMatcher: the longest matching block of a[alo..ahi] and
\* b[blo..bhi], the earliest in a and then in b among the longest
BlockLen(a, x, ahi, b, y, bhi) ==
    LET ks == {k \in 0..Min(ahi - x + 1, bhi - y + 1) :
                  \A m \in 0..(k - 1) : a[x + m] = b[y + m]}
    IN CHOOSE k \in ks : \A k2 \in ks : k2 <= k

LongestMatch(a, alo, ahi, b, blo, bhi) ==
    LET cands == {<<x, y>> : x \in alo..ahi, y \in blo..bhi}
        best == CHOOSE c \in cands :
                   \A c2 \in cands :
                      LET k == BlockLen(a, c[1], ahi, b, c[2], bhi)
                          k2 == BlockLen(a, c2[1], ahi, b, c2[2], bhi)
                      IN \/ k2 < k
                         \/ k2 = k /\ (c[1] < c2[1] \/ (c[1] = c2[1] /\ c[2] <= c2[2]))
    IN [i |-> best[1], j |-> best[2],
        size |-> BlockLen(a, best[1], ahi, b, best[2], bhi)]

\* number of matched characters: the longest block, then the pieces to its
\* left and to its right
RECURSIVE Matches(_, _, _, _, _, _)
Matches(a, alo, ahi, b, blo, bhi) ==
    IF alo > ahi \/ blo > bhi THEN 0
    ELSE LET m == LongestMatch(a, alo, ahi, b, blo, bhi)
         IN IF m.size = 0 THEN 0
            ELSE m.size
                 + Matches(a, alo, m.i - 1, b, blo, m.j - 1)
                 + Matches(a, m.i + m.size, ahi, b, m.j + m.size, bhi)

\* SequenceMatcher(a, b).ratio(), in hundredths rounded down: 2*M/T, 1.0
\* when both are empty
Ratio(a, b) ==
    IF Len(a) + Len(b) = 0 THEN 100
    ELSE (200 * Matches(a, 1, Len(a), b, 1, Len(b))) \div (Len(a) + Len(b))

\* semantic_classifier._ratio
SemanticRatio(a, b) == Ratio(Strip(Lower(a)), Strip(Lower(b)))

\* a heuristic scorer runs on a line; the detector reports the line when the
\* score reaches the threshold, and the report is coerced to a descriptor
ScoreHeuristic ==
    /\ sPc = "idle"
    /\ \E d \in HeuristicKeys :
       \E fired \in SUBSET HeuristicInputs(d) :
           LET sc == HeuristicScore(d, fired)
               hit == sc >= HeuristicThreshold(d)
               raw == ListValue(HeuristicClass(d),
                                <<Detection(0, HeuristicLabel(d), sc, "heuristic", <<>>)>>)
           IN /\ sDetector' = d
              /\ sSignals' = fired
              /\ sScore' = sc
              /\ sDetected' = hit
              /\ sConf' = IF hit
                          THEN coerce_to_descriptor(raw, HeuristicSignal(d), <<>>).confidence
                          ELSE 0
              /\ sPc' = "scored"
              /\ UNCHANGED <<sLine, sTitle>>
    /\ UNCHANGED <<secVars, rVars, repeatVars, normVars, domVars, emaVars, detVars>>

\* the exact matcher runs on a line with one candidate title
ScoreExact ==
    /\ sPc = "idle"
    /\ \E line \in Lines, title \in Lines :
           LET hits == find_exact_matches(ListValue("str", <<line>>), <<title>>, TRUE)
               raw == ListValue("exact_matcher.Detection", hits)
           IN /\ sDetector' = "exact"
              /\ sLine' = line
              /\ sTitle' = title
              /\ sScore' = IF hits # <<>> THEN hits[1].score ELSE 0
              /\ sDetected' = (hits # <<>>)
              /\ sConf' = IF hits # <<>>
                          THEN coerce_to_descriptor(raw, "EXACT", line).confidence
                          ELSE 0
              /\ sPc' = "scored"
              /\ UNCHANGED sSignals
    /\ UNCHANGED <<secVars, rVars, repeatVars, normVars, domVars, emaVars, detVars>>

\* the regex fallback runs on a line
ScoreRegex ==
    /\ sPc = "idle"
    /\ \E line \in Lines :
           LET raw == RegexMatch(StrValue(line))
               d == coerce_to_descriptor(raw, "REGEX", line)
           IN /\ sDetector' = "regex"
              /\ sLine' = line
              /\ sScore' = RegexScore(normalize_to_regex(Strip(line)))
              /\ sDetected' = Truthy(raw)
              /\ sConf' = d.confidence
              /\ sPc' = "scored"
              /\ UNCHANGED <<sSignals, sTitle>>
    /\ UNCHANGED <<secVars, rVars, repeatVars, normVars, domVars, emaVars, detVars>>

\* semantic_classify runs on a line with one candidate title
ScoreSemantic ==
    /\ sPc = "idle"
    /\ \E line \in Lines, title \in Lines :
           LET r == SemanticRatio(line, title)
               hit == r > 0 /\ r >= SemanticThreshold
               raw == ListValue("SemanticPrediction",
                                <<Detection(0, "semantic", r, "semantic", title)>>)
           IN /\ sDetector' = "semantic"
              /\ sLine' = line
              /\ sTitle' = title
              /\ sScore' = r
              /\ sDetected' = hit
              /\ sConf' = IF hit
                          THEN coerce_to_descriptor(raw, "SEMANTIC", line).confidence
                          ELSE 0
              /\ sPc' = "scored"
              /\ UNCHANGED sSignals
    /\ UNCHANGED <<secVars, rVars, repeatVars, normVars, domVars, emaVars, detVars>>

NextScoring == ScoreHeuristic \/ ScoreExact \/ ScoreRegex \/ ScoreSemantic

SpecScoring == InitRouter /\ [][NextScoring]_allVars

(***************************************************************************)
(* normalize_line.  A line is a sequence of code points, named by their    *)
(* glyph or their U+ number: a base letter, the combining acute accent     *)
(* that composes with it, a zero-width space, no-break and Ogham spaces,   *)
(* the plain space and tab, and one dash, quote and bullet variant.        *)
(***************************************************************************)
MaxNormLen == 3       \* longest line given to normalize_line
NChars == {"e", "U+0301", "U+200B", "U+00A0", "U+1680", " ", "TAB",
           "U+2014", "U+201C", "U+00B7"}
NLines == UNION {[1..n -> NChars] : n \in 0..MaxNormLen}

\* compatibility decomposition of one code point (NFKC): the no-break space
\* folds to the plain space
Compat(c) == IF c = "U+00A0" THEN " " ELSE c

\* canonical composition (NFKC): a base letter directly followed by a
\* combining mark becomes the precomposed letter
RECURSIVE Compose(_)
Compose(t) ==
    IF t = <<>> THEN <<>>
    ELSE IF Len(t) >= 2 /\ t[1] = "e" /\ t[2] = "U+0301"
    THEN <<"U+00E9">> \o Compose(SubSeq(t, 3, Len(t)))
    ELSE <<t[1]>> \o Compose(Tail(t))

\* unicodedata.normalize("NFKC", s)
NFKC(t) == Compose([j \in DOMAIN t |-> Compat(t[j])])

\* _WS_RX.sub(" ", s)
ExoticSpaces(t) ==
    [j \in DOMAIN t |-> IF t[j] \in {"U+00A0", "U+1680"} THEN " " ELSE t[j]]

\* _INVIS_RX.sub("", s)
StripInvisible(t) == SelectSeq(t, LAMBDA c : c # "U+200B")

\* s.translate(_DASH_TABLE).translate(_QUOTE_TABLE).translate(_BULLET_TABLE)
Punctuation(t) ==
    [j \in DOMAIN t |->
        CASE t[j] = "U+2014" -> "-"
          [] t[j] = "U+201C" -> "QUOTE"
          [] t[j] = "U+00B7" -> "U+2022"
          [] OTHER -> t[j]]

\* _SPACES_RX.sub(" ", s): a run of spaces and tabs becomes one space
RECURSIVE CollapseSpaces(_)
CollapseSpaces(t) ==
    IF t = <<>> THEN <<>>
    ELSE IF t[1] \in {" ", "TAB"}
    THEN IF Len(t) >= 2 /\ t[2] \in {" ", "TAB"}
         THEN CollapseSpaces(<<" ">> \o SubSeq(t, 3, Len(t)))
         ELSE <<" ">> \o CollapseSpaces(Tail(t))
    ELSE <<t[1]>> \o CollapseSpaces(Tail(t))

\* str.strip() of a line of code points
RECURSIVE TrimLeft(_)
TrimLeft(t) == IF t # <<>> /\ t[1] \in {" ", "TAB"} THEN TrimLeft(Tail(t)) ELSE t
RECURSIVE TrimRight(_)
TrimRight(t) == IF t # <<>> /\ Last(t) \in {" ", "TAB"} THEN TrimRight(Pop(t)) ELSE t
Trim(t) == TrimRight(TrimLeft(t))

normalize_line(text) ==
    Trim(CollapseSpaces(Punctuation(StripInvisible(ExoticSpaces(NFKC(text))))))

\* normalize_line(s), then normalize_line of the result
NormalizeTwice ==
    /\ nPc = "idle"
    /\ \E text \in NLines :
           /\ nIn' = text
           /\ nOnce' = normalize_line(text)
           /\ nTwice' = normalize_line(normalize_line(text))
           /\ nPc' = "done"
    /\ UNCHANGED <<secVars, rVars, repeatVars, scoreVars, domVars, emaVars, detVars>>

NextNormalize == NormalizeTwice

SpecNormalize == InitRouter /\ [][NextNormalize]_allVars

(***************************************************************************)
(* Domain scoring.  Raw scores are in hundredths.  What a pack matches on  *)
(* the line is the input: exact (the heading key is in headings_exact),    *)
(* fuzzy (the best fuzzy ratio, in hundredths, 0 without fuzzy headings),  *)
(* regex (a pack regex matches), kw (for each keyword in pack order,       *)
(* whether it matches), stop (a stopword matches).                         *)
(***************************************************************************)
MaxKeywords == 5      \* longest keyword list of a pack

\* _DEFAULT_WEIGHTS
WExact == 100
WFuzzy == 60
WRegex == 50
WKw == 10
WKwCap == 40
WStop == 30
\* the fuzzy cut-off and the line-feature bonus of _score_against_pack
FuzzyCutoff == 82
FeatureBonus == 2

PackNames == <<"LEGAL", "MEDICAL">>
FuzzyRatios == {0, 80, 100}
KwScans == {[j \in 1..n |-> TRUE] : n \in 0..MaxKeywords}
           \cup {[j \in 1..MaxKeywords |-> j > 1]}
PackSignals == [exact : BOOLEAN, fuzzy : FuzzyRatios, regex : BOOLEAN,
                kw : KwScans, stop : BOOLEAN]

\* the keyword loop: count hits, stop once hits * kw reaches kw_cap
RECURSIVE KwHitsStopBelowCap(_, _, _)
KwHitsStopBelowCap(scan, j, hits) ==
    IF j > Len(scan) THEN hits
    ELSE IF scan[j]
    THEN IF (hits + 2) * WKw >= WKwCap THEN hits + 1
         ELSE KwHitsStopBelowCap(scan, j + 1, hits + 1)
    ELSE KwHitsStopBelowCap(scan, j + 1, hits)
RECURSIVE KwHits(_, _, _)
KwHits(scan, j, hits) ==
    IF j > Len(scan) THEN hits
    ELSE IF scan[j]
    THEN IF (hits + 1) * WKw >= WKwCap THEN hits + 1
         ELSE KwHits(scan, j + 1, hits + 1)
    ELSE KwHits(scan, j + 1, hits)

\* kw_contrib = min(weights["kw_cap"], kw_hits * weights["kw"])
KwContrib(scan) == Min(WKwCap, KwHits(scan, 1, 0) * WKw)

\* _score_against_pack
score_against_pack(empty, bonus, pack) ==
    IF empty THEN 0
    ELSE Max((IF pack.exact THEN WExact ELSE 0)
             + (IF pack.fuzzy >= FuzzyCutoff THEN (WFuzzy * pack.fuzzy) \div 100 ELSE 0)
             + (IF pack.regex THEN WRegex ELSE 0)
             + KwContrib(pack.kw)
             - (IF pack.stop THEN WStop ELSE 0)
             + (IF bonus THEN FeatureBonus ELSE 0),
             0)

\* fixed-point exponential: values in 1/Scale; e^-1, e^-0.1, e^-0.01
Scale == 10000
ExpOne == 3679
ExpTenth == 9048
ExpHundredth == 9900
\* below this argument (in whole units) the result is 0
ExpUnderflow == 10

MulFix(x, y) == (x * y) \div Scale
RECURSIVE PowFix(_, _)
PowFix(base, k) == IF k = 0 THEN Scale ELSE MulFix(base, PowFix(base, k - 1))

\* math.exp(-n/100) for n >= 0
ExpNeg(n) ==
    IF n \div 100 >= ExpUnderflow THEN 0
    ELSE MulFix(MulFix(PowFix(ExpOne, n \div 100), PowFix(ExpTenth, (n % 100) \div 10)),
                PowFix(ExpHundredth, n % 10))

RECURSIVE SeqSum(_)
SeqSum(xs) == IF xs = <<>> THEN 0 ELSE xs[1] + SeqSum(Tail(xs))
RECURSIVE SeqMax(_)
SeqMax(xs) == IF Len(xs) = 1 THEN xs[1] ELSE Max(xs[1], SeqMax(Tail(xs)))

\* `if temperature <= 0: temperature = 1.0`
Temperature(t) == IF t <= 0 THEN 100 ELSE t

\* `z = sum(exps.values()) or 1.0`
SoftmaxDivisorMax(exps) == SeqMax(exps)
SoftmaxDivisor(exps) == IF SeqSum(exps) = 0 THEN Scale ELSE SeqSum(exps)

\* _softmax
softmax(scores, temperature) ==
    IF scores = <<>> THEN <<>>
    ELSE LET t == Temperature(temperature)
             m == SeqMax(scores)
             exps == [k \in DOMAIN scores |-> ExpNeg(((m - scores[k]) * 100) \div t)]
             z == SoftmaxDivisor(exps)
         IN [k \in DOMAIN scores |-> (exps[k] * Scale) \div z]

\* sorted(norm.items(), key=value, reverse=True): greatest first, equal
\* values in dict order
RECURSIVE SortedDesc(_, _)
SortedDesc(norm, left) ==
    IF left = {} THEN <<>>
    ELSE LET k == CHOOSE k \in left :
                     \A k2 \in left : norm[k2] < norm[k]
                                       \/ (norm[k2] = norm[k] /\ k <= k2)
         IN <<k>> \o SortedDesc(norm, left \ {k})

\* score_line_domain
score_line_domain(empty, bonus, packs, temperature) ==
    IF packs = <<>> THEN [scores |-> <<>>, raw |-> <<>>, top |-> <<>>]
    ELSE LET raw == [k \in DOMAIN packs |-> score_against_pack(empty, bonus, packs[k])]
             norm == softmax(raw, temperature)
         IN [scores |-> norm, raw |-> raw, top |-> SortedDesc(norm, DOMAIN norm)]

Temperatures == {0, 1, 100}

ScoreLineDomain ==
    /\ dPc = "idle"
    /\ \E n \in 0..Len(PackNames) :
       \E packs \in [1..n -> PackSignals], empty \in BOOLEAN, bonus \in BOOLEAN,
          temperature \in Temperatures :
           LET r == score_line_domain(empty, bonus, packs, temperature)
           IN /\ dPacks' = packs
              /\ dEmpty' = empty
              /\ dBonus' = bonus
              /\ dTemp' = temperature
              /\ dRaw' = r.raw
              /\ dNorm' = r.scores
              /\ dTop' = r.top
              /\ dPc' = "scored"
    /\ UNCHANGED <<secVars, rVars, repeatVars, scoreVars, normVars, emaVars, detVars>>

\* every pattern of matching and non-matching keywords of one pack
AnyKwScans == UNION {[1..n -> BOOLEAN] : n \in 0..MaxKeywords}

\* score_line_domain with one pack whose keywords match in any pattern
ScoreLineOnePack ==
    /\ dPc = "idle"
    /\ \E exact \in BOOLEAN, fuzzy \in FuzzyRatios, regex \in BOOLEAN,
          kw \in AnyKwScans, stop \in BOOLEAN, empty \in BOOLEAN, bonus \in BOOLEAN :
           LET pack == [exact |-> exact, fuzzy |-> fuzzy, regex |-> regex,
                        kw |-> kw, stop |-> stop]
               r == score_line_domain(empty, bonus, <<pack>>, dTemp)
           IN /\ dPacks' = <<pack>>
              /\ dEmpty' = empty
              /\ dBonus' = bonus
              /\ dRaw' = r.raw
              /\ dNorm' = r.scores
              /\ dTop' = r.top
              /\ dPc' = "scored"
    /\ UNCHANGED dTemp
    /\ UNCHANGED <<secVars, rVars, repeatVars, scoreVars, normVars, emaVars, detVars>>

NextDomain == ScoreLineDomain \/ ScoreLineOnePack

SpecDomain == InitRouter /\ [][NextDomain]_allVars

(***************************************************************************)
(* The document prior.  A dict of floats is a record of exact fractions:   *)
(* num[k] / den for every key k.  None is the record with none = TRUE.     *)
(***************************************************************************)
MaxDocLines == 2      \* lines folded into the prior of one document
AlphaDen == 10        \* alpha is eAlpha / AlphaDen
Alphas == {0, 2, 10}
Domains == {"LEGAL", "MEDICAL"}
Docs == {1, 2}

NonePrior == [none |-> TRUE, num |-> <<>>, den |-> 1]
Dict(num, den) == [none |-> FALSE, num |-> num, den |-> den]

\* line scores: distributions over at least one domain
CurrentScores ==
    { Dict([k \in {"LEGAL"} |-> 1], 1),
      Dict([k \in Domains |-> 1], 2),
      Dict([k \in Domains |-> IF k = "LEGAL" THEN 1 ELSE 3], 4) }

\* the priors a document starts from
InitialPriors ==
    { NonePrior, Dict([k \in Domains |-> 1], 2), Dict([k \in {"MEDICAL"} |-> 1], 1) }

\* set(d.keys()), with `prev_prior or {}`
Keys(d) == IF d.none THEN {} ELSE DOMAIN d.num
\* numerator of (d or {}).get(k, 0.0)
GetNum(d, k) == IF k \in Keys(d) THEN d.num[k] ELSE 0

RECURSIVE GCD(_, _)
GCD(x, y) == IF y = 0 THEN x ELSE GCD(y, x % y)
RECURSIVE SumOver(_, _)
SumOver(f, ks) ==
    IF ks = {} THEN 0
    ELSE LET k == CHOOSE k \in ks : TRUE IN f[k] + SumOver(f, ks \ {k})
RECURSIVE GcdOver(_, _)
GcdOver(f, ks) ==
    IF ks = {} THEN 0
    ELSE LET k == CHOOSE k \in ks : TRUE IN GCD(f[k], GcdOver(f, ks \ {k}))

\* (1 - alpha) * prev + alpha * now for every key, over the common
\* denominator AlphaDen * prev.den * cur.den
Blend(prev, cur, alpha) ==
    [k \in Keys(cur) \cup Keys(prev) |->
        (AlphaDen - alpha) * GetNum(prev, k) * cur.den
        + alpha * GetNum(cur, k) * prev.den]

\* ema_prior_update: `s = sum(out.values()) or 1.0`, then v / s for every key
ema_prior_update(prev, cur, alpha) ==
    LET out == Blend(prev, cur, alpha)
        s == SumOver(out, DOMAIN out)
        g == GcdOver(out, DOMAIN out)
    IN IF s = 0 THEN Dict(out, 1)
       ELSE Dict([k \in DOMAIN out |-> out[k] \div g], s \div g)

\* the dict passed as prev_prior after the call: the function builds a new
\* dict and leaves its argument as it was
PrevAfterInPlace(prev, returned) == returned
PrevAfter(prev, returned) == prev

\* the value a ref stands for
Deref(heap, ref) == IF ref = 0 THEN NonePrior ELSE heap[ref]

\* both documents start from the same prior object
EmaStart ==
    /\ eAlpha \in Alphas
    /\ eFirst \in InitialPriors
    /\ eHeap = IF eFirst.none THEN <<>> ELSE <<eFirst>>
    /\ ePrior = IF eFirst.none THEN <<0, 0>> ELSE <<1, 1>>
    /\ eHist = << <<>>, <<>> >>
    /\ eCall = <<>>

\* document d folds the scores of its next line into its prior:
\* prior = ema_prior_update(prior, scores, alpha=alpha)
EmaUpdate ==
    \E d \in Docs, cur \in CurrentScores :
        /\ Len(eHist[d]) < MaxDocLines
        /\ LET prev == Deref(eHeap, ePrior[d])
               returned == ema_prior_update(prev, cur, eAlpha)
               heap1 == IF ePrior[d] = 0 THEN eHeap
                        ELSE [eHeap EXCEPT ![ePrior[d]] = PrevAfter(prev, returned)]
           IN /\ eHeap' = Append(heap1, returned)
              /\ ePrior' = [ePrior EXCEPT ![d] = Len(eHeap) + 1]
              /\ eHist' = [eHist EXCEPT ![d] = Append(@, cur)]
              /\ eCall' = <<[prev |-> prev, cur |-> cur, returned |-> returned]>>
        /\ UNCHANGED <<eAlpha, eFirst>>
        /\ UNCHANGED <<secVars, rVars, repeatVars, scoreVars, normVars, domVars, detVars>>

NextEma == EmaUpdate

InitEma ==
    /\ RouterIdle /\ SectionsIdle
    /\ RepeatIdle /\ ScoringIdle /\ NormalizeIdle /\ DomainIdle /\ DetectIdle
    /\ EmaStart

SpecEma == InitEma /\ [][NextEma]_allVars

(***************************************************************************)
(* The detectors on a document.  A line is given by its text (read by the  *)
(* regex fallback), the signals of its detector that fire on it, and the   *)
(* clues whose predicate or preprocessor raises on it.                     *)
(***************************************************************************)
\* BASE_CLUES of heuristic_classifier
CLASSIFIER_CLUES ==
    << [name |-> "all_caps", weight |-> 55],
       [name |-> "title_case", weight |-> 39],
       [name |-> "title_case_with_colon", weight |-> 39],
       [name |-> "trailing_colon", weight |-> 25],
       [name |-> "num_heading", weight |-> 30],
       [name |-> "roman_num_heading", weight |-> 30],
       [name |-> "title_case_after_num", weight |-> 39],
       [name |-> "bullet_or_dash", weight |-> -30],
       [name |-> "toc_dots", weight |-> -20] >>

\* SYNERGY_RULES of heuristic_classifier
CLASSIFIER_SYNERGY ==
    << [need |-> {"num_heading", "title_case_after_num"}, bonus |-> 50],
       [need |-> {"roman_num_heading", "title_case_after_num"}, bonus |-> 10],
       [need |-> {"trailing_colon", "title_case"}, bonus |-> 25] >>

RECURSIVE ClassifierSynergy(_, _)
ClassifierSynergy(j, fired) ==
    IF j > Len(CLASSIFIER_SYNERGY) THEN 0
    ELSE (IF CLASSIFIER_SYNERGY[j].need \subseteq fired
          THEN CLASSIFIER_SYNERGY[j].bonus ELSE 0)
         + ClassifierSynergy(j + 1, fired)

\* the feature tweaks of score_line_heuristics
ClassifierFeatures(fired) ==
    LET is_heading == {"num_heading", "roman_num_heading"} \cap fired # {}
    IN (IF "contains_text" \in fired THEN 5 ELSE 0)
       + (IF "begins_non_letter" \in fired /\ ~is_heading THEN -10 ELSE 0)
       + (IF "contains_number" \in fired THEN 5 ELSE 0)
       + (IF "contains_list_numbering" \in fired /\ ~is_heading THEN -15 ELSE 0)
       + (IF "bold" \in fired THEN 10 ELSE 0)
       + (IF "font_size>=14" \in fired THEN 10 ELSE 0)

\* score_line_heuristics with the default clamps; a clue that raises is
\* skipped by its `except Exception: continue`, so only `fired` counts
score_line_heuristics(fired) ==
    IF "empty" \in fired THEN 0
    ELSE Max(Min(WeightSum(CLASSIFIER_CLUES, 1, fired) + ClassifierFeatures(fired)
                    + ClassifierSynergy(1, fired), 100), 0)

ClassifierInputs ==
    {"empty", "contains_text", "begins_non_letter", "contains_number",
     "contains_list_numbering", "bold", "font_size>=14"}
    \cup {CLASSIFIER_CLUES[j].name : j \in DOMAIN CLASSIFIER_CLUES}

\* the detectors that score line by line, and what each scorer reads
LineDetectors == HeuristicKeys \cup {"classify_lines"}
ClueDetectors == {"heading", "classify_lines"}
DetectorInputs(d) == IF d = "classify_lines" THEN ClassifierInputs ELSE HeuristicInputs(d)
DetectorSynergy(d) ==
    IF d = "heading" THEN {SYNERGY_RULES[j].need : j \in DOMAIN SYNERGY_RULES}
    ELSE IF d = "classify_lines"
    THEN {CLASSIFIER_SYNERGY[j].need : j \in DOMAIN CLASSIFIER_SYNERGY}
    ELSE {}

\* the lines explored for detector d: no signal, one signal, or the clues of
\* one synergy rule fire; no clue or one clue raises
DocLines(d) ==
    {[text |-> <<>>, fired |-> f, raising |-> r] :
        f \in {{}} \cup {{x} : x \in DetectorInputs(d)} \cup DetectorSynergy(d),
        r \in {{}} \cup (IF d \in ClueDetectors THEN {{"title_case"}} ELSE {})}
\* a line given by its text alone
TextLine(t) == [text |-> t, fired |-> {}, raising |-> {}]
\* the lines of the documents given to regex_fallback: empty, whitespace
\* only, a word, a word after white space, a word and a colon
RegexDocLines ==
    {TextLine(t) : t \in {<<>>, <<" ">>, <<"a">>, <<" ", "a">>, <<"A", ":">>}}
DetectThresholds == {0, 55, 100}

\* the score the scorer of detector d returns for a line.  score_heading
\* calls clue.fires(s) bare, so a raising clue leaves it as an exception;
\* score_line_heuristics catches it and goes on to the next clue.
LineScore(d, line) ==
    IF d = "classify_lines" THEN score_line_heuristics(line.fired \ line.raising)
    ELSE IF d = "heading"
    THEN (IF "empty" \notin line.fired /\ line.raising # {} THEN Raises
          ELSE score_heading(line.fired \ line.raising))
    ELSE HeuristicScore(d, line.fired)

\* detect_headings, detect_lists, detect_paragraphs, detect_tables,
\* CalloutHeuristicDetector.detect and classify_lines on a list of lines
DetectDocument(d, lines, threshold) ==
    LET scores == [k \in DOMAIN lines |-> LineScore(d, lines[k])]
    IN IF \E k \in DOMAIN lines : scores[k] = Raises
       THEN [raised |-> TRUE, items |-> <<>>]
       ELSE [raised |-> FALSE,
             items |-> DetectLines(scores, 1, threshold,
                                   IF d = "classify_lines" THEN "title"
                                   ELSE HeuristicLabel(d), "heuristic")]

DetectHeuristic ==
    /\ tPc = "idle"
    /\ \E d \in LineDetectors, threshold \in DetectThresholds :
       \E lines \in UNION {[1..n -> DocLines(d)] : n \in 0..MaxDocLines} :
           /\ tDetector' = d
           /\ tLines' = lines
           /\ tThreshold' = threshold
           /\ tOut' = DetectDocument(d, lines, threshold)
           /\ tPc' = "done"
    /\ UNCHANGED <<secVars, rVars, repeatVars, scoreVars, normVars, domVars, emaVars>>

\* regex_fallback on a list of lines
DetectRegex ==
    /\ tPc = "idle"
    /\ \E lines \in UNION {[1..n -> RegexDocLines] : n \in 0..MaxDocLines} :
           /\ tDetector' = "regex_fallback"
           /\ tLines' = lines
           /\ tOut' = [raised |-> FALSE,
                       items |-> regex_fallback(
                           ListValue("str", [k \in DOMAIN lines |-> lines[k].text]))]
           /\ tPc' = "done"
    /\ UNCHANGED tThreshold
    /\ UNCHANGED <<secVars, rVars, repeatVars, scoreVars, normVars, domVars, emaVars>>

\* regex_maker.match on one string
MatchRegex ==
    /\ tPc = "idle"
    /\ \E t \in Lines :
           LET best == RegexMatch(StrValue(t))
           IN /\ tDetector' = "regex_maker.match"
              /\ tLines' = <<TextLine(t)>>
              /\ tOut' = [raised |-> FALSE, items |-> best.items]
              /\ tPc' = "done"
    /\ UNCHANGED tThreshold
    /\ UNCHANGED <<secVars, rVars, repeatVars, scoreVars, normVars, domVars, emaVars>>

NextDetect == DetectHeuristic \/ DetectRegex \/ MatchRegex

SpecDetect == InitRouter /\ [][NextDetect]_allVars

(***************************************************************************)
(* Properties of the Section Assembler                                     *)
(***************************************************************************)
\* effective level of heading k: its detection level, 1 when missing
Lvl(k) == OrOne(dets[k])

Range(s) == {s[j] : j \in DOMAIN s}

\* the section whose subsections list holds k (0: none)
ParentOf(k) ==
    IF \E p \in DOMAIN subs : k \in Range(subs[p])
    THEN CHOOSE p \in DOMAIN subs : k \in Range(subs[p])
    ELSE 0

\* every place a Section is referenced from: <<0, j>> is root_sections[j],
\* <<p, j>> is subsections[j] of section p
Refs == {<<0, j>> : j \in DOMAIN roots}
          \cup UNION {{<<p, j>> : j \in DOMAIN subs[p]} : p \in DOMAIN subs}
RefTarget(r) == IF r[1] = 0 THEN roots[r[2]] ELSE subs[r[1]][r[2]]
Occurrences(k) == Cardinality({r \in Refs : RefTarget(r) = k})

Children(S) == UNION {Range(subs[p]) : p \in S}
RECURSIVE Descend(_, _)
Descend(S, fuel) == IF fuel = 0 THEN S ELSE Descend(S \cup Children(S), fuel - 1)
\* the sections reachable from k through subsections
Descendants(k) == Descend(Children({k}), Len(dets))

Finished == pc \in {"done", "raised"}

\* C1: the headings [1,2,2,1] give exactly 2 root sections, the first with
\* the two level-2 headings as its subsections, the second with none.
C1_TwoRoots ==
    (pc = "done" /\ dets = <<1, 2, 2, 1>> /\ Len(carried) = Len(dets))
        => /\ roots = <<1, 4>>
           /\ subs[1] = <<2, 3>>
           /\ subs[4] = <<>>
           /\ subs[2] = <<>> /\ subs[3] = <<>>

\* C2: a heading shallower than the top of the stack pops until the top's
\* level is strictly less than its own or the stack is empty, and is then
\* attached under that top, or as a new root when the stack became empty.
C2_ClimbToParentOrRoot ==
    (pc # "raised" /\ prevStack # <<>> /\ Lvl(i) < Lvl(Last(prevStack)))
        => LET lower == {j \in DOMAIN prevStack : Lvl(prevStack[j]) < Lvl(i)}
               keep == IF lower = {} THEN 0
                       ELSE CHOOSE j \in lower : \A m \in lower : m <= j
           IN /\ stack = Append(SubSeq(prevStack, 1, keep), i)
              /\ IF keep = 0
                 THEN i \in Range(roots) /\ ParentOf(i) = 0
                 ELSE ParentOf(i) = prevStack[keep] /\ i \notin Range(roots)

\* C3: a heading strictly deeper than the section on top of the stack is
\* appended as the last subsection of that section and pushed, at every
\* position and whether or not the descriptors carry a 'level' feature.
C3_DeeperNests ==
    (pc # "raised" /\ prevStack # <<>> /\ Lvl(i) > Lvl(Last(prevStack)))
        => /\ stack = Append(prevStack, i)
           /\ subs[Last(prevStack)] # <<>>
           /\ Last(subs[Last(prevStack)]) = i
           /\ i \notin Range(roots)

\* C4: in the returned forest every non-root Section's level is at least its
\* parent's level + 1.
C4_ChildDeeperThanParent ==
    pc = "done" =>
        \A k \in DOMAIN subs : ParentOf(k) # 0 => Lvl(k) >= Lvl(ParentOf(k)) + 1

\* C5: in the returned forest no Section is reachable from itself through
\* subsections, and every Section created is referenced exactly once (in the
\* root list or in the subsections of one parent).
C5_ForestShape ==
    pc = "done" =>
        \A k \in DOMAIN subs : k \notin Descendants(k) /\ Occurrences(k) = 1

C5_Witness ==
    /\ pc = "done" /\ builder = "config"
    /\ Len(roots) >= 2
    /\ \E p \in DOMAIN subs : subs[p] # <<>> /\ ParentOf(p) # 0

\* C6: a missing level is treated exactly as level 1 at every position:
\* the call on the input with every missing level replaced by 1 ends the
\* same way with the same roots and the same subsections for every heading.
MissingAsOne(levels) ==
    [k \in DOMAIN levels |-> IF levels[k] = None THEN 1 ELSE levels[k]]

C6_MissingLevelIsOne ==
    Finished =>
        LET r == build_sections_from_headings(builder, MissingAsOne(dets), carried)
        IN r.pc = pc /\ r.roots = roots /\ r.subs = subs

C6_Witness ==
    /\ pc = "done" /\ builder = "config"
    /\ \E k \in DOMAIN subs : k >= 2 /\ dets[k] = None /\ ParentOf(k) # 0
    /\ \E k \in DOMAIN subs : k >= 2 /\ dets[k] = None /\ ParentOf(k) = 0
    /\ dets # <<>> /\ dets[1] = None

\* C25: a heading with the same level as the section on top of the stack
\* becomes that section's next sibling (the top is popped, the heading is
\* attached to the same parent, or to the root list if the top was a root,
\* and pushed); hence headings that all have one level give only root
\* sections, in document order, none with subsections.
C25_EqualLevelSibling ==
    /\ (pc # "raised" /\ prevStack # <<>> /\ Lvl(i) = Lvl(Last(prevStack)))
          => LET top == Last(prevStack)
             IN /\ stack = Append(Pop(prevStack), i)
                /\ ParentOf(i) = ParentOf(top)
                /\ IF ParentOf(top) = 0
                   THEN top \in Range(roots) /\ Last(roots) = i
                   ELSE Last(subs[ParentOf(top)]) = i /\ i \notin Range(roots)
    /\ (pc = "done" /\ builder = "config"
           /\ \A k \in DOMAIN subs : Lvl(k) = Lvl(1))
          => /\ roots = [k \in DOMAIN subs |-> k]
             /\ \A k \in DOMAIN subs : subs[k] = <<>>

C25_Witness ==
    /\ pc # "raised" /\ builder = "config"
    /\ Len(prevStack) >= 2
    /\ Lvl(i) = Lvl(Last(prevStack))
    /\ ParentOf(i) # 0

\* the value `prev_level` had in the iteration that placed heading i
PrevLevel == OrOne(FeaturesGet(feat[Last(prevStack)], dets[i]))

\* C26: after the call returns, the anchor of every Section, the first one
\* included, has features['level'] equal to its heading's effective level,
\* and the previous level a heading was compared against is the level of
\* the section on top of the stack, never the heading's own.
C26_LevelStored ==
    /\ pc = "done" => \A k \in DOMAIN feat : feat[k] = Lvl(k)
    /\ (pc # "raised" /\ prevStack # <<>>) => PrevLevel = Lvl(Last(prevStack))

\* C28: after each heading is processed the stack is the ancestor chain of
\* the section just created: non-empty, its bottom the last section of the
\* root list, each element above the bottom the last subsection of the
\* element below it, its top the section just created.
C28_StackIsAncestorChain ==
    (pc # "raised" /\ i >= 1)
        => /\ stack # <<>>
           /\ roots # <<>> /\ stack[1] = Last(roots)
           /\ \A j \in 2..Len(stack) :
                 /\ subs[stack[j - 1]] # <<>>
                 /\ Last(subs[stack[j - 1]]) = stack[j]
           /\ Last(stack) = i

C28_Witness ==
    /\ pc # "raised" /\ builder = "config"
    /\ Len(stack) >= 3
    /\ Len(prevStack) >= Len(stack)

\* pre-order traversal of a list of sections: each section, then its
\* subsections in list order
RECURSIVE PreOrder(_)
PreOrder(list) ==
    IF list = <<>> THEN <<>>
    ELSE <<Head(list)>> \o PreOrder(subs[Head(list)]) \o PreOrder(Tail(list))

\* C29: for every pair of input sequences the call returns, and the
\* pre-order traversal of the returned forest visits the anchors of the
\* first min(len(detections), len(descriptors)) descriptors exactly once
\* each, in input order; the surplus of the longer sequence is ignored.
C29_PreOrderIsInputOrder ==
    (Finished /\ builder = "config")
        => /\ pc = "done"
           /\ PreOrder(roots) = [k \in 1..ZipLen(dets, carried) |-> k]

C29_Witness ==
    /\ pc = "done" /\ builder = "config"
    /\ Len(dets) # Len(carried)
    /\ Len(roots) >= 2
    /\ \E p \in DOMAIN subs : subs[p] # <<>>
    /\ PreOrder(roots) = <<1, 2, 3>>

(***************************************************************************)
(* Properties of the Router                                                *)
(***************************************************************************)
AutoMode == rPc = "returned" /\ ~SignalTruthy(rSignal)

\* the Exact Matcher, given the line and the candidate titles, reports a hit
ExactFires ==
    /\ ~rTitles.isNone
    /\ find_exact_matches(ListValue("str", <<rText>>), rTitles.items, TRUE) # <<>>

\* C7: priority law: in auto mode, when the Exact Matcher fires on the line
\* for the candidate titles given, the returned descriptor's signals are
\* [EXACT], whatever the structural hint and whatever the heuristics find.
C7_PriorityLaw ==
    (AutoMode /\ ExactFires) => rDesc.signals = <<"EXACT">>

\* what each strategy returns when the router invokes it on the line
ExactResult ==
    IF TitlesTruthy(rTitles) THEN ExactMatch(StrValue(rText), rTitles) ELSE NoneValue
HintUsed == rStructure \in HeuristicKeys
FiringHeuristics ==
    {j \in DOMAIN HEURISTIC_ORDER :
        /\ HintUsed => HEURISTIC_ORDER[j] = rStructure
        /\ Truthy(HeuristicMatch(HEURISTIC_ORDER[j], StrValue(rText), rWould))}
FirstHeuristic == CHOOSE j \in FiringHeuristics : \A m \in FiringHeuristics : j <= m
RegexResult == RegexMatch(StrValue(rText))
SemanticResult == SemanticMatch(StrValue(rText), rWould)

\* rank of the strategy a detector belongs to, in the order Exact,
\* heuristic, Regex, Semantic
StrategyRank(name) ==
    CASE name = "exact" -> 1
      [] name \in HeuristicKeys -> 2
      [] name = "regex" -> 3
      [] name = "semantic" -> 4

\* C8: in auto mode the strategies are consulted in the order Exact,
\* heuristic, Regex, Semantic and the descriptor returned is the coercion of
\* the first non-empty result, carrying that strategy's signal; what later
\* strategies would return plays no part.
C8_FirstStrategyWins ==
    AutoMode =>
        /\ \A a, b \in DOMAIN rCalls :
              a < b => StrategyRank(rCalls[a]) <= StrategyRank(rCalls[b])
        /\ rDesc =
             IF Truthy(ExactResult)
             THEN coerce_to_descriptor(ExactResult, "EXACT", rText)
             ELSE IF FiringHeuristics # {}
             THEN coerce_to_descriptor(
                     HeuristicMatch(HEURISTIC_ORDER[FirstHeuristic], StrValue(rText), rWould),
                     HeuristicSignal(HEURISTIC_ORDER[FirstHeuristic]), rText)
             ELSE IF Truthy(RegexResult)
             THEN coerce_to_descriptor(RegexResult, "REGEX", rText)
             ELSE IF Truthy(SemanticResult)
             THEN coerce_to_descriptor(SemanticResult, "SEMANTIC", rText)
             ELSE FallbackDescriptor(rText)
        /\ rDesc.signals =
             IF Truthy(ExactResult) THEN <<"EXACT">>
             ELSE IF FiringHeuristics # {}
             THEN <<HeuristicSignal(HEURISTIC_ORDER[FirstHeuristic])>>
             ELSE IF Truthy(RegexResult) THEN <<"REGEX">>
             ELSE IF Truthy(SemanticResult) THEN <<"SEMANTIC">>
             ELSE <<"FALLBACK">>

C8_Witness ==
    /\ AutoMode
    /\ rStructure = NoStructure
    /\ rCalls = <<"exact", "heading", "list", "paragraph">>
    /\ rDesc.signals = <<"HEURISTIC-PARAGRAPH">>
    /\ Truthy(RegexResult) /\ Truthy(SemanticResult)

\* C9: with a non-empty explicit signal no detector is invoked and the
\* descriptor returned has signals [signal] and confidence 1.0 for EXACT or
\* REGEX, 0.0 for any other signal.
C9_ExplicitSignal ==
    (rPc = "returned" /\ SignalTruthy(rSignal))
        => /\ rCalls = <<>>
           /\ rDesc.signals = <<rSignal>>
           /\ rDesc.confidence = IF rSignal \in {"EXACT", "REGEX"} THEN 100 ELSE 0

C9_Witness ==
    /\ rPc = "returned"
    /\ rSignal = "REGEX"
    /\ rDesc.confidence = 100
    /\ rDesc.signals = <<"REGEX">>
    /\ ExactFires /\ TitlesTruthy(rTitles)
    /\ rWould["heading"] = 90

\* C10: in auto mode, when no strategy returns a non-empty result for the
\* line, the descriptor returned is UNKNOWN with confidence 0.0, signals
\* [FALLBACK] and the line text in its features.
C10_FallbackReported ==
    (/\ AutoMode
     /\ ~Truthy(ExactResult)
     /\ FiringHeuristics = {}
     /\ ~Truthy(RegexResult)
     /\ ~Truthy(SemanticResult))
        => rDesc = Descriptor(TypeCode("UNKNOWN"), <<"FALLBACK">>, 0, TRUE, rText)

\* the regex step returns a detection for every line, so no call reaches the
\* terminal descriptor
C10_CaseNeverArises ==
    AutoMode => Truthy(RegexResult) /\ rDesc.signals # <<"FALLBACK">>

(***************************************************************************)
(* Properties of repeated and failing calls                                *)
(***************************************************************************)
\* what the matcher invoked under `key` gave the call
InvokedResult(key) ==
    CASE key = "exact" -> ExactMatch(StrValue(rText), rTitles)
      [] key = "regex" -> RegexMatch(StrValue(rText))
      [] key = "semantic" -> SemanticMatch(StrValue(rText), rWould)
      [] OTHER -> HeuristicMatch(key, StrValue(rText), rWould)

\* C11: two calls of route_match with identical arguments return descriptors
\* equal in every field, the descriptor id included
C11_SameDescriptor ==
    rPc = "returned2" => (r2Desc = rDesc /\ r2Id = rId)

\* C12: when a detector that route_match invokes raises, the exception does
\* not leave route_match and a descriptor is still returned
C12_RaiseContained ==
    (\E j \in DOMAIN rCalls : IsRaise(InvokedResult(rCalls[j])))
    => (rPc = "returned" /\ rDesc # NoDescriptor)

(***************************************************************************)
(* Properties of the Exact Matcher and of the descriptor type              *)
(***************************************************************************)
\* the trimmed line, or it with one trailing colon removed, equals candidate
\* title c, case-insensitively
EqualsTitle(line, c) ==
    LET t == Strip(line)
    IN \/ Lower(t) = Lower(c)
       \/ t # <<>> /\ Last(t) = ":" /\ Lower(Pop(t)) = Lower(c)

LineEqualsTitle ==
    /\ ~rTitles.isNone
    /\ \E j \in DOMAIN rTitles.items : EqualsTitle(rText, rTitles.items[j])

\* what the Exact Matcher reports for the line of the call
ExactOnLine == find_exact_matches(ListValue("str", <<rText>>), rTitles.items, TRUE)

\* the Exact Matcher reports a hit with score 1.0 on such a line
ExactHitOnTitle ==
    (rPc = "returned" /\ LineEqualsTitle)
    => (ExactOnLine # <<>> /\ ExactOnLine[1].score = 100)

\* C13: when the trimmed line, or it with one trailing colon removed, equals
\* a candidate title case-insensitively, the Exact Matcher reports a hit with
\* score 1.0 and route_match returns confidence 1.0 with signal EXACT
C13_ExactTitleRouted ==
    (rPc = "returned" /\ AutoMode /\ LineEqualsTitle)
    => /\ ExactOnLine # <<>> /\ ExactOnLine[1].score = 100
       /\ rDesc.confidence = 100
       /\ rDesc.signals = <<"EXACT">>

\* the values of the form enums
HeadingForm == {"H-SHORT", "H-LONG", "H-SECTION-N", "H-CONTENTS", "H-SUBTITLE"}
ListForm == {"L-BULLET", "L-ORDERED", "L-DEFINITION", "L-CONTINUATION", "L-UNKNOWN"}
ParagraphForm == {"P-BODY", "P-LEAD", "P-SUMMARY", "P-UNKNOWN"}
TableForm == {"T-ROW", "T-HEADER", "T-CAPTION", "T-FOOTNOTE"}
CalloutForm == {"C-WARNING", "C-QUOTE", "C-CODE"}

\* the closed taxonomy of descriptor types
Taxonomy ==
    HeadingForm \cup ListForm \cup ParagraphForm \cup TableForm \cup CalloutForm
    \cup {"UNKNOWN"}

\* C14: the type of every descriptor route_match returns, in either mode, is
\* a code of the closed taxonomy: never a generic class name, a REGEX-* label
\* or the text of the line
C14_TypeInTaxonomy ==
    rPc = "returned" => (~rDesc.type.isLine /\ rDesc.type.code \in Taxonomy)

(***************************************************************************)
(* Properties of the scorers                                               *)
(***************************************************************************)
\* C15: every score a detector returns and every confidence of a descriptor
\* made from a detector's report lies in [0, 1], whatever clues, synergy
\* bonuses and feature flags fired
C15_ScoresInUnitInterval ==
    sPc = "scored" => (sScore \in 0..100 /\ sConf \in 0..100)

\* the heading clues, the bold flag and a synergy bonus add up to more than
\* 1.0, the line is reported and its descriptor is made
C15_Witness ==
    /\ sPc = "scored" /\ sDetector = "heading"
    /\ HeadingRaw(sSignals) > 100 /\ sDetected /\ sConf = 100
    /\ "bold" \in sSignals
    /\ {"num_heading", "title_after_num"} \subseteq sSignals

(***************************************************************************)
(* Properties of normalize_line                                            *)
(***************************************************************************)
\* C16: normalize_line is idempotent: normalizing the result of
\* normalize_line(s) again gives the same string, for every s
C16_Idempotent ==
    nPc = "done" => nTwice = nOnce

(***************************************************************************)
(* Properties of domain scoring                                            *)
(***************************************************************************)
\* C17: with at least one pack configured the normalized scores of
\* score_line_domain sum to 1 (to within one unit of rounding per pack), for
\* any line, the empty one included, and any temperature; with no pack the
\* scores, the raw scores and the ranking are all empty
C17_ScoresSumToOne ==
    dPc = "scored" =>
        IF dPacks = <<>>
        THEN dNorm = <<>> /\ dRaw = <<>> /\ dTop = <<>>
        ELSE /\ DOMAIN dNorm = DOMAIN dPacks
             /\ SeqSum(dNorm) <= Scale
             /\ SeqSum(dNorm) >= Scale - Len(dPacks)

\* two packs, a sharp temperature: the weaker pack's exponential underflows
\* to 0 and the scores still sum to 1
C17_Witness ==
    /\ dPc = "scored" /\ Len(dPacks) = 2 /\ dTemp = 1
    /\ dRaw[1] > dRaw[2] /\ dNorm[2] = 0 /\ dNorm[1] = Scale

\* C20: when the heading key of a line is in one pack's exact heading set and
\* in no other pack's, that pack's normalized score is strictly greater than
\* every other pack's, whatever else the packs match on the line
C20_ExactPackDominates ==
    dPc = "scored" =>
        \A a \in DOMAIN dPacks :
            (/\ ~dEmpty
             /\ dPacks[a].exact
             /\ \A b \in DOMAIN dPacks \ {a} : ~dPacks[b].exact)
            => \A b \in DOMAIN dPacks \ {a} : dNorm[a] > dNorm[b]

(***************************************************************************)
(* Properties of the document prior                                        *)
(***************************************************************************)
\* the fraction n / d in lowest terms
Lowest(n, d) == IF n = 0 THEN <<0, 1>> ELSE <<n \div GCD(n, d), d \div GCD(n, d)>>

\* C18: for every domain in the prior or in the current scores,
\* ema_prior_update returns (1 - alpha) * prior + alpha * current (an absent
\* domain counting as 0) divided by the sum of these values, so that the
\* returned prior sums to 1, for every alpha in [0, 1] and every previous
\* prior, None included
C18_EmaNormalized ==
    eCall # <<>> =>
        LET c == eCall[1]
            blend == Blend(c.prev, c.cur, eAlpha)
            total == SumOver(blend, DOMAIN blend)
            out == c.returned
        IN /\ DOMAIN out.num = Keys(c.prev) \cup Keys(c.cur)
           /\ SumOver(out.num, DOMAIN out.num) = out.den
           /\ \A k \in DOMAIN out.num :
                  Lowest(out.num[k], out.den) = Lowest(blend[k], total)

\* the prior document d has after its lines alone, in order
RECURSIVE Alone(_, _)
Alone(prior, hist) ==
    IF hist = <<>> THEN prior
    ELSE Alone(ema_prior_update(prior, hist[1], eAlpha), Tail(hist))

\* C19: the prior lives only in the value passed to and returned from
\* ema_prior_update: with the lines of two documents interleaved, each
\* document holds the prior it would hold had it been processed alone, and
\* the prior it started from is as it was
C19_PriorThreaded ==
    /\ \A d \in Docs : Deref(eHeap, ePrior[d]) = Alone(eFirst, eHist[d])
    /\ ~eFirst.none => eHeap[1] = eFirst

\* both documents have folded in lines, interleaved, from a shared first
\* prior, and hold different priors
C19_Witness ==
    /\ ~eFirst.none /\ eAlpha = 2
    /\ Len(eHist[1]) = MaxDocLines /\ Len(eHist[2]) >= 1
    /\ ePrior[1] > ePrior[2] /\ ePrior[2] > 2
    /\ Deref(eHeap, ePrior[1]) # Deref(eHeap, ePrior[2])

\* number of keywords of a scan that match the line
Matching(scan) == Cardinality({j \in DOMAIN scan : scan[j]})

\* C24: the keyword contribution of _score_against_pack is
\* min(kw_cap, matching keywords * kw): stopping the scan once the cap is
\* reached gives the same contribution, and the same raw score (never below
\* 0), as scanning every keyword, for every pack and every ordering of its
\* keywords.
C24_KeywordCapExact ==
    dPc = "scored" =>
        \A k \in DOMAIN dPacks :
            LET kw == dPacks[k].kw
            IN /\ KwContrib(kw) = Min(WKwCap, Matching(kw) * WKw)
               /\ dRaw[k] >= 0
               /\ \A other \in [DOMAIN kw -> BOOLEAN] :
                     Matching(other) = Matching(kw)
                        => score_against_pack(dEmpty, dBonus,
                                              [dPacks[k] EXCEPT !.kw = other]) = dRaw[k]

C24_Witness ==
    /\ dPc = "scored" /\ ~dEmpty
    /\ Len(dPacks) = 1
    /\ Matching(dPacks[1].kw) * WKw > WKwCap
    /\ KwHits(dPacks[1].kw, 1, 0) < Matching(dPacks[1].kw)
    /\ dRaw[1] = WKwCap

(***************************************************************************)
(* Properties of the heuristic and regex steps of the Router               *)
(***************************************************************************)
\* the heuristic detectors the call consulted, in the order it did
HeuristicCalls == SelectSeq(rCalls, LAMBDA c : c \in HeuristicKeys)

\* the call reached step 2
HeuristicStepReached == AutoMode /\ ~Truthy(ExactResult)

\* the order the claim gives for the detectors
ClaimedOrder == <<"heading", "list", "paragraph", "table", "callout">>

\* C23: in the heuristic step, a hint naming one of heading, list,
\* paragraph, table, callout makes the router consult only that detector;
\* with no hint the five are consulted in the order heading, list,
\* paragraph, table, callout and the first that fires gives the result,
\* with signal HEURISTIC-<CLASS> of that detector, whatever later detectors
\* would return.
C23_HeuristicStepOrder ==
    HeuristicStepReached =>
        IF rStructure \in Range(ClaimedOrder)
        THEN /\ HeuristicCalls = <<rStructure>>
             /\ Truthy(InvokedResult(rStructure))
                   => rDesc.signals = <<HeuristicSignal(rStructure)>>
        ELSE \E n \in 0..Len(ClaimedOrder) :
                /\ HeuristicCalls = SubSeq(ClaimedOrder, 1, n)
                /\ \A j \in 1..(n - 1) : ~Truthy(InvokedResult(ClaimedOrder[j]))
                /\ IF n >= 1 /\ Truthy(InvokedResult(ClaimedOrder[n]))
                   THEN rDesc.signals = <<HeuristicSignal(ClaimedOrder[n])>>
                   ELSE n = Len(ClaimedOrder)

C23_Witness ==
    /\ HeuristicStepReached
    /\ rStructure = NoStructure
    /\ HeuristicCalls = <<"heading">>
    /\ rDesc.signals = <<"HEURISTIC-HEADING">>
    /\ Truthy(HeuristicMatch("paragraph", StrValue(rText), rWould))

\* C30: in auto mode route_match returns at or before the regex step for
\* every line, hint and candidate set: the semantic matcher is never
\* invoked, the regex matcher at most once, and no result carries the
\* signal SEMANTIC or FALLBACK.
C30_ReturnsByRegexStep ==
    AutoMode =>
        /\ \A j \in DOMAIN rCalls : rCalls[j] # "semantic"
        /\ Cardinality({j \in DOMAIN rCalls : rCalls[j] = "regex"}) <= 1
        /\ \A j \in DOMAIN rCalls : rCalls[j] = "regex" => j = Len(rCalls)
        /\ rDesc.signals \notin {<<"SEMANTIC">>, <<"FALLBACK">>}
        /\ rDesc.type # TypeCode("UNKNOWN") \/ rDesc.signals = <<"REGEX">>

C30_Witness ==
    /\ AutoMode
    /\ rCalls # <<>> /\ Last(rCalls) = "regex"
    /\ rDesc.signals = <<"REGEX">>
    /\ Strip(rText) = <<>>
    /\ Truthy(SemanticResult)
    /\ rStructure = "list"

(***************************************************************************)
(* Properties of the detectors on a document                               *)
(***************************************************************************)
\* the positions (from 0) of the lines a call reported
Reported == {tOut.items[j].line_idx : j \in DOMAIN tOut.items}

\* C21: each heuristic detector reports a line iff the line's clamped score
\* is >= the threshold in effect, and its detections come in ascending line
\* index with at most one detection per line.
C21_ReportedIffAtThreshold ==
    (tPc = "done" /\ tDetector \in HeuristicKeys /\ ~tOut.raised)
        => /\ \A k \in DOMAIN tLines :
                 (k - 1 \in Reported)
                    <=> HeuristicScore(tDetector, tLines[k].fired) >= tThreshold
           /\ \A j, m \in DOMAIN tOut.items :
                 j < m => tOut.items[j].line_idx < tOut.items[m].line_idx
           /\ \A j \in DOMAIN tOut.items :
                 /\ tOut.items[j].score >= 0
                 /\ tOut.items[j].score <= 100

C21_Witness ==
    /\ tPc = "done" /\ tDetector \in HeuristicKeys /\ ~tOut.raised
    /\ Len(tLines) >= 2
    /\ tThreshold > 0
    /\ Reported = {1}
    /\ tOut.items[1].score = tThreshold

\* C22: regex_fallback returns exactly one RegexDetection per line, in
\* input order with line_idx the line's position, empty and whitespace-only
\* lines included; regex_maker.match returns a detection, never None, for
\* every string.
C22_RegexNeverMisses ==
    /\ (tPc = "done" /\ tDetector = "regex_fallback")
          => /\ ~tOut.raised
             /\ Len(tOut.items) = Len(tLines)
             /\ \A k \in DOMAIN tLines :
                   /\ tOut.items[k].line_idx = k - 1
                   /\ tOut.items[k].title = Strip(tLines[k].text)
    /\ (tPc = "done" /\ tDetector = "regex_maker.match")
          => /\ ~tOut.raised
             /\ Len(tOut.items) = 1
             /\ tOut.items[1].line_idx = 0
             /\ tOut.items[1].title = Strip(tLines[1].text)

C22_Witness ==
    /\ tPc = "done" /\ tDetector = "regex_fallback"
    /\ Len(tLines) >= 2
    /\ tLines[1].text = <<>>
    /\ tLines[2].text = <<" ">>
    /\ Len(tOut.items) = Len(tLines)

\* the score of a line when its raising clues count as not fired
ScoreWithoutRaising(d, line) ==
    IF d = "heading" THEN score_heading(line.fired \ line.raising)
    ELSE score_line_heuristics(line.fired \ line.raising)

\* C27: in the clue-based scorers (score_heading under detect_headings,
\* score_line_heuristics under classify_lines) a clue that raises on a line
\* counts as not fired: the other clues of the line are still evaluated and
\* the detector still processes and reports the remaining lines.
C27_RaisingClueSkipped ==
    (tPc = "done" /\ tDetector \in ClueDetectors)
        => /\ ~tOut.raised
           /\ \A k \in DOMAIN tLines :
                 (k - 1 \in Reported)
                    <=> ScoreWithoutRaising(tDetector, tLines[k]) >= tThreshold
====
